---- MODULE Spec2Model ----
(***************************************************************************)
(* Quill -> Obsidian webhook server (quill_server.py): the candidate       *)
(* selector find_best_candidate, the scoring engine compute_score, the     *)
(* speaker attribution of the renderer and the request handlers that       *)
(* consume pending records or relabel speakers.                            *)
(*                                                                         *)
(* Conventions of the model                                                *)
(*   text      a Python str is a sequence of one-character strings         *)
(*   names     a person name is a text; a roster is a sequence of names    *)
(*   time      epoch time is counted in hours (1 = 3 600 000 ms)           *)
(*   scores    a float score in [0,1] is an integer in millionths          *)
(*             (ONE = 1.0); weights are in units of 1/1000; a composite    *)
(*             is their product, in units of 1/1 000 000 000; round(x, 3)  *)
(*             yields thousandths                                          *)
(*   None      NULL (no integer), NoText (no str), NoRow (no MeetingRow)   *)
(***************************************************************************)
EXTENDS Integers, Sequences, FiniteSets, TLC

VARIABLES
    db,          \* the Meeting table of quill.db: a set of MeetingRow records
    dbExists,    \* QUILL_DB_PATH.exists()
    auto,        \* AUTO_RECONCILE_ON_SUMMARY
    pendings,    \* the *.pending.json files under SUMMARIES_ROOT
    transcripts, \* the "... - Transcript.md" files under TRANSCRIPTS_ROOT
    pd,          \* the pending record handed to find_best_candidate
    sel,         \* what find_best_candidate returned (or that it raised)
    last,        \* the effects and the response of the last request
    labels,      \* the *.labels.json files under OVERRIDES_DIR, by meeting id
    call         \* a helper of the scoring engine called on its own

vars == <<db, dbExists, auto, pendings, transcripts, pd, sel, last, labels, call>>

-----------------------------------------------------------------------------
(* Python values *)

NULL == 0 - 1                    \* None where an int is expected
NoText == <<"\\0">>              \* None where a str is expected
NoId == ""                       \* no Meeting.id (None or "")

Max2(a, b) == IF a >= b THEN a ELSE b
Min2(a, b) == IF a <= b THEN a ELSE b
Abs(x) == IF x < 0 THEN -x ELSE x

SetMax(S) == CHOOSE x \in S : \A y \in S : y <= x

Range(s) == {s[i] : i \in 1..Len(s)}

\* (s or ""), for a str that may be None
OrEmpty(s) == IF s = NoText THEN <<>> ELSE s

-----------------------------------------------------------------------------
(* Text primitives *)

Lowers == {"a","b","c","d","e","f","g","h","i","j","k","l","m",
           "n","o","p","q","r","s","t","u","v","w","x","y","z"}
Uppers == {"A","B","C","D","E","F","G","H","I","J","K","L","M",
           "N","O","P","Q","R","S","T","U","V","W","X","Y","Z"}
Digits == {"0","1","2","3","4","5","6","7","8","9"}
Spaces == {" ", "\n", "\t"}

UpperSeq == <<"A","B","C","D","E","F","G","H","I","J","K","L","M",
              "N","O","P","Q","R","S","T","U","V","W","X","Y","Z">>
LowerSeq == <<"a","b","c","d","e","f","g","h","i","j","k","l","m",
              "n","o","p","q","r","s","t","u","v","w","x","y","z">>

\* str.lower() on one character
LowerChar(c) ==
    IF c \in Uppers
    THEN LowerSeq[CHOOSE i \in 1..26 : UpperSeq[i] = c]
    ELSE c

\* str.lower()
Lower(s) == [i \in 1..Len(s) |-> LowerChar(s[i])]

\* str.strip()
RECURSIVE LStrip(_)
LStrip(s) == IF s # <<>> /\ Head(s) \in Spaces THEN LStrip(Tail(s)) ELSE s

RECURSIVE RStrip(_)
RStrip(s) ==
    IF s # <<>> /\ s[Len(s)] \in Spaces THEN RStrip(SubSeq(s, 1, Len(s) - 1)) ELSE s

Strip(s) == RStrip(LStrip(s))

\* re.sub(r"\s+", " ", s)
RECURSIVE CollapseSpaces(_)
CollapseSpaces(s) ==
    IF s = <<>> THEN <<>>
    ELSE IF Head(s) \in Spaces
         THEN <<" ">> \o CollapseSpaces(LStrip(s))
         ELSE <<Head(s)>> \o CollapseSpaces(Tail(s))

\* s[:n]
Prefix(s, n) == SubSeq(s, 1, Min2(n, Len(s)))

\* s[i:] with a 0-based i
From(s, i) == SubSeq(s, i + 1, Len(s))

\* s.startswith(p)
StartsWith(s, p) == Len(p) <= Len(s) /\ SubSeq(s, 1, Len(p)) = p

\* p in s
Contains(s, p) == \E i \in 0..(Len(s) - Len(p)) : SubSeq(s, i + 1, i + Len(p)) = p

\* sep.join(parts)
RECURSIVE Join(_, _)
Join(parts, sep) ==
    IF parts = <<>> THEN <<>>
    ELSE IF Len(parts) = 1 THEN parts[1]
    ELSE parts[1] \o sep \o Join(Tail(parts), sep)

-----------------------------------------------------------------------------
(* difflib.SequenceMatcher(None, a, b).ratio() *)

ONE == 1000 * 1000
TENTH == ONE \div 10

\* length of the common run a[i:], b[j:] (0-based), inside a[:ahi], b[:bhi]
RECURSIVE CommonRun(_, _, _, _, _, _)
CommonRun(a, b, i, j, ahi, bhi) ==
    IF i < ahi /\ j < bhi /\ a[i + 1] = b[j + 1]
    THEN 1 + CommonRun(a, b, i + 1, j + 1, ahi, bhi)
    ELSE 0

\* find_longest_match: the longest block, the earliest in a, then in b
find_longest_match(a, b, alo, ahi, blo, bhi) ==
    LET starts == (alo..(ahi - 1)) \X (blo..(bhi - 1))
        K(p) == CommonRun(a, b, p[1], p[2], ahi, bhi)
        best == IF starts = {} THEN 0 ELSE SetMax({K(p) : p \in starts})
    IN  IF best = 0 THEN <<alo, blo, 0>>
        ELSE LET top == {p \in starts : K(p) = best}
                 i == CHOOSE x \in {p[1] : p \in top} : \A p \in top : x <= p[1]
                 j == CHOOSE y \in {p[2] : p \in {q \in top : q[1] = i}} :
                          \A p \in top : p[1] = i => y <= p[2]
             IN  <<i, j, best>>

\* get_matching_blocks: the total size of the matching blocks; Around is
\* the recursion to the left and to the right of the longest block m = (i, j, k)
RECURSIVE MatchingSize(_, _, _, _, _, _)
Around(a, b, alo, ahi, blo, bhi, m) ==
    IF m[3] = 0 THEN 0
    ELSE m[3]
         + (IF alo < m[1] /\ blo < m[2]
            THEN MatchingSize(a, b, alo, m[1], blo, m[2]) ELSE 0)
         + (IF m[1] + m[3] < ahi /\ m[2] + m[3] < bhi
            THEN MatchingSize(a, b, m[1] + m[3], ahi, m[2] + m[3], bhi) ELSE 0)

MatchingSize(a, b, alo, ahi, blo, bhi) ==
    Around(a, b, alo, ahi, blo, bhi, find_longest_match(a, b, alo, ahi, blo, bhi))

\* ratio() = 2.0 * M / T, and 1.0 for two empty sequences
Ratio(a, b) ==
    IF Len(a) + Len(b) = 0 THEN ONE
    ELSE (2 * ONE * MatchingSize(a, b, 0, Len(a), 0, Len(b))) \div (Len(a) + Len(b))

-----------------------------------------------------------------------------
(* Title helpers *)

\* TITLE_CLEAN_RE.sub(" ", s): every run of characters outside [a-z0-9\s]
\* becomes one space
RECURSIVE TitleClean(_)
TitleClean(s) ==
    IF s = <<>> THEN <<>>
    ELSE IF Head(s) \in (Lowers \cup Digits \cup Spaces)
         THEN <<Head(s)>> \o TitleClean(Tail(s))
         ELSE LET rest == TitleClean(Tail(s))
              IN  IF Len(s) > 1 /\ s[2] \notin (Lowers \cup Digits \cup Spaces)
                  THEN rest
                  ELSE <<" ">> \o rest

\* a normalization that keeps the punctuation
normalize_title_kept(s) == Strip(CollapseSpaces(Lower(Strip(OrEmpty(s)))))

normalize_title(s) ==
    Strip(CollapseSpaces(TitleClean(Lower(Strip(OrEmpty(s))))))

common_names ==
    <<
       <<"a","l","e","x">>,
       <<"a","l","x">>,
       <<"j","o","h","n">>,
       <<"j","a","n","e">>,
       <<"m","i","k","e">>,
       <<"s","a","r","a","h">>,
       <<"e","m","i","l","y">>,
       <<"d","a","v","i","d">>,
       <<"j","a","m","e","s">>,
       <<"m","a","r","y">>,
       <<"r","o","b","e","r","t">>,
       <<"l","i","s","a">>,
       <<"w","i","l","l","i","a","m">>,
       <<"j","e","n","n","i","f","e","r">>,
       <<"m","i","c","h","a","e","l">>
    >>

\* s.split(":", 1)[1] for a text that holds a colon
RECURSIVE AfterColon(_)
AfterColon(s) == IF Head(s) = ":" THEN Tail(s) ELSE AfterColon(Tail(s))

\* extract_title_components: meeting_type "" and topic <<>> stand for None
extract_title_components(title) ==
    LET t == Lower(title)
        one == Contains(t, <<"1",":","1">>)
               \/ Contains(t, <<"1"," ","o","n"," ","1">>)
               \/ Contains(t, <<"1"," ","1">>)
               \/ StartsWith(t, <<"1"," ","1">>)
        topic == IF ":" \in Range(title) THEN Lower(Strip(AfterColon(title))) ELSE <<>>
    IN  [ meeting_type |->
              IF one THEN "1:1"
              ELSE IF Contains(t, <<"s","y","n","c">>) THEN "sync"
              ELSE IF Contains(t, <<"s","t","a","n","d","u","p">>) THEN "standup"
              ELSE IF Contains(t, <<"r","e","t","r","o">>) THEN "retro"
              ELSE "",
          participants |-> {n \in Range(common_names) : Contains(t, n)},
          topic |-> topic ]

\* calculate_component_similarity: weights 0.4 / 0.4 / 0.2 in tenths
calculate_component_similarity(ca, cb) ==
    LET hasType == ca.meeting_type # "" /\ cb.meeting_type # ""
        hasPart == ca.participants # {} /\ cb.participants # {}
        hasTopic == ca.topic # <<>> /\ cb.topic # <<>>
        total == (IF hasType THEN 4 ELSE 0) + (IF hasPart THEN 4 ELSE 0)
                 + (IF hasTopic THEN 2 ELSE 0)
        score == (IF hasType /\ ca.meeting_type = cb.meeting_type THEN 4 * ONE ELSE 0)
                 + (IF hasPart
                    THEN (4 * ONE * Cardinality(ca.participants \cap cb.participants))
                         \div Cardinality(ca.participants \cup cb.participants)
                    ELSE 0)
                 + (IF hasTopic THEN 2 * Ratio(ca.topic, cb.topic) ELSE 0)
    IN  IF total > 0 THEN score \div total ELSE 0

\* the +0.3 of enhanced_title_matching for two 1:1 titles that share a name
PairBoost(ca, cb, s) ==
    IF ca.meeting_type = "1:1" /\ cb.meeting_type = "1:1"
       /\ ca.participants \cap cb.participants # {}
    THEN Min2(ONE, s + 3 * TENTH)
    ELSE s

ComponentMatch(ca, cb) == PairBoost(ca, cb, calculate_component_similarity(ca, cb))

enhanced_title_matching(ta, tb) ==
    ComponentMatch(extract_title_components(ta), extract_title_components(tb))

\* title_similarity on the normalized titles na, nb
NormalizedSimilarity(na, nb) ==
    IF na = <<>> \/ nb = <<>> THEN 0
    ELSE Max2(Ratio(na, nb), enhanced_title_matching(na, nb))

title_similarity(a, b) == NormalizedSimilarity(normalize_title(a), normalize_title(b))

-----------------------------------------------------------------------------
(* Person-name helpers *)

Letters == Lowers \cup Uppers

MY_CANONICAL_NAME == <<"Y","o","u","r"," ","N","a","m","e">>
MY_ALIASES == { <<"m","e">>,
                <<"y","o","u","r","-","f","i","r","s","t","-","n","a","m","e">> }

\* re.sub(r"\([^)]*\)", "", s)
RECURSIVE DropParens(_)
DropParens(s) ==
    IF s = <<>> THEN <<>>
    ELSE IF Head(s) = "(" /\ ")" \in Range(Tail(s))
         THEN LET close == CHOOSE i \in 2..Len(s) :
                               s[i] = ")" /\ \A j \in 2..(i - 1) : s[j] # ")"
              IN  DropParens(SubSeq(s, close + 1, Len(s)))
         ELSE <<Head(s)>> \o DropParens(Tail(s))

\* re.sub(r"[^a-z'\s]", " ", s)
NameClean(s) ==
    [i \in 1..Len(s) |->
        IF s[i] \in (Lowers \cup Spaces \cup {"'"}) THEN s[i] ELSE " "]

normalize_person_token(s) ==
    Strip(CollapseSpaces(NameClean(DropParens(Lower(Strip(OrEmpty(s)))))))

\* NAME_TOKEN_RE.findall(s.lower()): the maximal runs of [A-Za-z']
RECURSIVE TokenRuns(_, _)
TokenRuns(s, cur) ==
    IF s = <<>> THEN (IF cur = <<>> THEN {} ELSE {cur})
    ELSE IF Head(s) \in (Letters \cup {"'"})
         THEN TokenRuns(Tail(s), cur \o <<Head(s)>>)
         ELSE (IF cur = <<>> THEN {} ELSE {cur}) \cup TokenRuns(Tail(s), <<>>)

\* set(tokenize_name(s))
tokenize_name(s) == TokenRuns(Lower(s), <<>>)

\* alias_set = {a.lower() for a in MY_ALIASES}
alias_set == {Lower(a) : a \in MY_ALIASES}

RECURSIVE expand_aliases(_)
expand_aliases(names) ==
    IF names = <<>> THEN <<>>
    ELSE LET n == Head(names)
             nl == Lower(Strip(OrEmpty(n)))
             rest == expand_aliases(Tail(names))
         IN  IF nl = <<>> THEN rest
             ELSE IF nl \in alias_set THEN <<MY_CANONICAL_NAME>> \o rest
             ELSE <<n>> \o rest

\* str.title(): a letter that follows a non-letter is upper-cased, any other
\* letter lower-cased
UpperChar(c) ==
    IF c \in Lowers
    THEN UpperSeq[CHOOSE i \in 1..26 : LowerSeq[i] = c]
    ELSE c

Title(s) ==
    [i \in 1..Len(s) |->
        IF i = 1 \/ s[i - 1] \notin Letters THEN UpperChar(s[i]) ELSE LowerChar(s[i])]

\* re.split(r"[,&]| and ", s, flags=re.IGNORECASE)
RECURSIVE SplitParticipants(_, _)
SplitParticipants(s, cur) ==
    IF s = <<>> THEN <<cur>>
    ELSE IF Head(s) \in {",", "&"}
         THEN <<cur>> \o SplitParticipants(Tail(s), <<>>)
         ELSE IF Len(s) >= 5 /\ Lower(SubSeq(s, 1, 5)) = <<" ","a","n","d"," ">>
              THEN <<cur>> \o SplitParticipants(SubSeq(s, 6, Len(s)), <<>>)
              ELSE SplitParticipants(Tail(s), cur \o <<Head(s)>>)

\* [f(p) for p in parts if keep(p)] for the two comprehensions below
RECURSIVE NormalizeNonBlank(_)
NormalizeNonBlank(parts) ==
    IF parts = <<>> THEN <<>>
    ELSE IF Strip(Head(parts)) # <<>>
         THEN <<normalize_person_token(Head(parts))>> \o NormalizeNonBlank(Tail(parts))
         ELSE NormalizeNonBlank(Tail(parts))

RECURSIVE TitleNonEmpty(_)
TitleNonEmpty(parts) ==
    IF parts = <<>> THEN <<>>
    ELSE IF Head(parts) # <<>>
         THEN <<Title(Head(parts))>> \o TitleNonEmpty(Tail(parts))
         ELSE TitleNonEmpty(Tail(parts))

split_participants_string(db_value) ==
    IF db_value = NoText \/ db_value = <<>> THEN <<>>
    ELSE TitleNonEmpty(expand_aliases(NormalizeNonBlank(SplitParticipants(db_value, <<>>))))

\* name matching on whole names: the token sets must be equal
fuzzy_name_whole(want, have) ==
    /\ tokenize_name(normalize_person_token(want)) # {}
    /\ tokenize_name(normalize_person_token(want))
           = tokenize_name(normalize_person_token(have))

fuzzy_name_match(want, have) ==
    LET wt == tokenize_name(normalize_person_token(want))
        ht == tokenize_name(normalize_person_token(have))
        wx == IF wt \cap alias_set # {}
              THEN wt \cup tokenize_name(MY_CANONICAL_NAME)
              ELSE wt
    IN  wt # {} /\ ht # {} /\ wx \cap ht # {}

\* the names of a list that are hit by some name of another
Hits(desired_norm, db_parts) ==
    {i \in 1..Len(desired_norm) :
        \E j \in 1..Len(db_parts) : fuzzy_name_match(desired_norm[i], db_parts[j])}

participant_overlap_fuzzy(desired, db_parts) ==
    IF desired = <<>> THEN 0
    ELSE LET desired_norm == expand_aliases(desired)
         IN  (ONE * Cardinality(Hits(desired_norm, db_parts)))
                 \div Max2(Len(desired_norm), 1)

-----------------------------------------------------------------------------
(* Transcript blobs and the transcript-snippet score *)

\* Meeting.audio_transcript: kind "none" is NULL, "empty" is "", "garbage" is
\* a str that json.loads rejects or that holds no block list, "json" is a
\* block list (bare or under "blocks")
NoBlob == [kind |-> "none", blocks |-> <<>>]
EmptyBlob == [kind |-> "empty", blocks |-> <<>>]
GarbageBlob == [kind |-> "garbage", blocks |-> <<>>]
JsonBlob(blocks) == [kind |-> "json", blocks |-> blocks]

\* bool(m.audio_transcript)
HasAudio(blob) == blob.kind \in {"garbage", "json"}

\* _parse_audio_blocks(blob)[0]: the block list, or None (isNone)
_parse_audio_blocks(blob) ==
    IF blob.kind = "json"
    THEN [isNone |-> FALSE, blocks |-> blob.blocks]
    ELSE [isNone |-> TRUE, blocks |-> <<>>]

\* [b.get("text", "") for b in blocks[:n]]
BlockTexts(blocks, n) == [i \in 1..Min2(n, Len(blocks)) |-> blocks[i].text]

\* index of the first character at or after i (1-based) that is not in S
RECURSIVE SkipWhile(_, _, _)
SkipWhile(s, i, S) ==
    IF i <= Len(s) /\ s[i] \in S THEN SkipWhile(s, i + 1, S) ELSE i

\* re.sub(r"Speaker \d+:\s*", "", s), scanning from the 1-based index i
SpeakerWord == <<"S","p","e","a","k","e","r"," ">>

RECURSIVE StripSpeakerFrom(_, _)
StripSpeakerFrom(s, i) ==
    IF i > Len(s) THEN <<>>
    ELSE LET d == i + Len(SpeakerWord)
             e == SkipWhile(s, d, Digits)
         IN  IF StartsWith(From(s, i - 1), SpeakerWord)
                /\ e > d /\ e <= Len(s) /\ s[e] = ":"
             THEN StripSpeakerFrom(s, SkipWhile(s, e + 1, Spaces))
             ELSE <<s[i]>> \o StripSpeakerFrom(s, i + 1)

StripSpeakerLabels(s) == StripSpeakerFrom(s, 1)

\* [A-Z][a-z]+ at the 1-based index i: the index after it, or 0
WordEnd(s, i) ==
    IF i + 1 <= Len(s) /\ s[i] \in Uppers /\ s[i + 1] \in Lowers
    THEN SkipWhile(s, i + 1, Lowers)
    ELSE 0

\* (?:\s+[A-Z][a-z]+)* after a word that ends before e: the index after the
\* last word taken
RECURSIVE MoreWords(_, _)
MoreWords(s, e) ==
    LET p == SkipWhile(s, e, Spaces)
        w == IF p > e THEN WordEnd(s, p) ELSE 0
    IN  IF w > 0 THEN MoreWords(s, w) ELSE e

WordChars == Letters \cup Digits \cup {"_"}

\* re.sub(r"\b[A-Z][a-z]+(?:\s+[A-Z][a-z]+)*:\s*", "", s), from index i
RECURSIVE StripNamesFrom(_, _)
StripNamesFrom(s, i) ==
    IF i > Len(s) THEN <<>>
    ELSE LET boundary == i = 1 \/ s[i - 1] \notin WordChars
             w == WordEnd(s, i)
             e == IF w > 0 THEN MoreWords(s, w) ELSE 0
         IN  IF boundary /\ e > 0 /\ e <= Len(s) /\ s[e] = ":"
             THEN StripNamesFrom(s, SkipWhile(s, e + 1, Spaces))
             ELSE <<s[i]>> \o StripNamesFrom(s, i + 1)

StripNameLabels(s) == StripNamesFrom(s, 1)

\* .replace(U+2033, '"'); the other replace calls of the source map a
\* character to itself
DPRIME == "U+2033"
QuoteFix(s) == [i \in 1..Len(s) |-> IF s[i] = DPRIME THEN "\"" ELSE s[i]]

HEAD_BLOCKS == 10
EXT_BLOCKS == 50

\* both label patterns removed, "Speaker N:" first
CleanLabels(s) == StripNameLabels(StripSpeakerLabels(s))

\* similarity > 0.8 is boosted by 0.2
BoostHigh(similarity) ==
    IF similarity > 8 * TENTH THEN Min2(ONE, similarity + 2 * TENTH) ELSE similarity

\* a snippet contained in the text adds 0.1
BoostContained(score, snippet_lower, text_lower) ==
    IF Contains(text_lower, snippet_lower) THEN Min2(ONE, score + TENTH) ELSE score

\* the score against the first HEAD_BLOCKS blocks
HeadScore(snippet_lower, beginning_lower) ==
    BoostContained(BoostHigh(Ratio(snippet_lower, beginning_lower)),
                   snippet_lower, beginning_lower)

\* the extended search over the first EXT_BLOCKS blocks
ExtendedScore(first, snippet_clean, extended_clean) ==
    Max2(IF Contains(Lower(extended_clean), Lower(snippet_clean))
         THEN Max2(first, 4 * TENTH) ELSE first,
         (Ratio(Lower(snippet_clean), Prefix(extended_clean, 5 * Len(snippet_clean))) * 8)
             \div 10)

\* first is the score against the head; the extended search runs when it is
\* below 0.3 and there are more blocks than the head holds
WithExtended(blocks, first, snippet_clean) ==
    IF first < 3 * TENTH /\ Len(blocks) > HEAD_BLOCKS
    THEN ExtendedScore(first, snippet_clean,
                       CleanLabels(CollapseSpaces(Join(BlockTexts(blocks, EXT_BLOCKS),
                                                       <<" ">>))))
    ELSE first

CleanScore(blocks, snippet_clean, beginning_clean) ==
    WithExtended(blocks, HeadScore(Lower(snippet_clean), Lower(beginning_clean)),
                 snippet_clean)

\* snippet0 is the snippet with its quotes and spaces normalized,
\* beginning_text the joined text of the first HEAD_BLOCKS blocks
BlockScore(blocks, snippet0, beginning_text) ==
    IF blocks = <<>> \/ beginning_text = <<>> THEN 0
    ELSE CleanScore(blocks, CleanLabels(snippet0),
                    CleanLabels(CollapseSpaces(Prefix(beginning_text, 2 * Len(snippet0)))))

\* the transcript_score of compute_score
transcript_score_of(transcript_snippet, blob) ==
    IF transcript_snippet = NoText \/ transcript_snippet = <<>> \/ ~HasAudio(blob)
    THEN 0
    ELSE IF _parse_audio_blocks(blob).isNone THEN 0
    ELSE BlockScore(_parse_audio_blocks(blob).blocks,
                    QuoteFix(CollapseSpaces(Strip(transcript_snippet))),
                    Strip(Join(BlockTexts(_parse_audio_blocks(blob).blocks, HEAD_BLOCKS),
                               <<" ">>)))

-----------------------------------------------------------------------------
(* Calendar and day window *)

\* the dates of the model and their day number since 1970-01-01; every other
\* date_str is one that strptime(date_str, "%Y-%m-%d") rejects
Calendar ==
    ("2024-02-29" :> 19782) @@ ("2024-03-01" :> 19783) @@ ("2024-03-02" :> 19784)

\* datetime.strptime(date_str, "%Y-%m-%d"): the day number, NULL for ValueError
strptime(date_str) ==
    IF date_str \in DOMAIN Calendar THEN Calendar[date_str] ELSE NULL

\* dt.strftime("%Y-%m-%d") of a day number (a date outside the model's
\* calendar is some string equal to none of its dates)
strftime(day) ==
    IF \E s \in DOMAIN Calendar : Calendar[s] = day
    THEN CHOOSE s \in DOMAIN Calendar : Calendar[s] = day
    ELSE "other"

\* dt_utc.month of an epoch hour (the model's calendar spans Feb-Mar 2024)
MonthOf(hour) == IF hour \div 24 <= Calendar["2024-02-29"] THEN 2 ELSE 3

WINDOW_HOURS == 36

local_day_bounds_ms(date_str) ==
    LET day == strptime(date_str)
        center == day * 24 + 12
        half == WINDOW_HOURS
    IN  IF day = NULL
        THEN [raised |-> TRUE, lo |-> 0, hi |-> 0]
        ELSE [raised |-> FALSE, lo |-> center - half, hi |-> center + half]

same_local_calendar_day(meeting_date, start_ms) ==
    IF start_ms = NULL THEN FALSE
    ELSE LET offset_hours == IF 3 <= MonthOf(start_ms) /\ MonthOf(start_ms) <= 11
                             THEN 0 - 5 ELSE 0 - 6
         IN  strftime((start_ms + offset_hours) \div 24) = meeting_date

-----------------------------------------------------------------------------
(* The Meeting table *)

\* a MeetingRow with the columns the queries read; contact_sids and
\* contact_names are the speaker ids and the names that
\* get_contact_meeting_speakers finds for the meeting in ContactMeeting;
\* Meeting.speakers is read by no query of database.py (speakers_json is None)
NoRow == [id |-> NoId, title |-> NoText, participants |-> NoText,
          contact_sids |-> <<>>, contact_names |-> <<>>, start |-> NULL, end |-> NULL,
          audio_transcript |-> NoBlob, deleteDate |-> NULL]

\* ORDER BY start ASC of a set of rows, as a sequence; SQL leaves the order
\* of equal starts open, and no two meetings of the model that can share a
\* table start in the same hour
RECURSIVE OrderByStart(_)
OrderByStart(rows) ==
    IF rows = {} THEN <<>>
    ELSE LET first == CHOOSE r \in rows : \A q \in rows : r.start <= q.start
         IN  <<first>> \o OrderByStart(rows \ {first})

\* database.get_meeting_by_id through fetch_by_id
fetch_by_id(table, meeting_id) ==
    LET found == {r \in table : r.deleteDate = NULL /\ r.id = meeting_id}
    IN  IF found = {} THEN NoRow ELSE CHOOSE r \in found : TRUE

\* database.get_meetings_in_window through fetch_overlap_window: a row whose
\* start or end is NULL satisfies no comparison and is not returned
fetch_overlap_window(table, lo_ms, hi_ms) ==
    OrderByStart({r \in table :
        /\ r.deleteDate = NULL
        /\ r.start # NULL /\ r.end # NULL
        /\ ~(r.end < lo_ms \/ r.start > hi_ms)})

fetch_start_in_window(table, lo_ms, hi_ms) ==
    OrderByStart({r \in table :
        /\ r.deleteDate = NULL
        /\ r.start # NULL
        /\ lo_ms <= r.start /\ r.start <= hi_ms})

RECURSIVE NormalizeNames(_)
NormalizeNames(names) ==
    IF names = <<>> THEN <<>>
    ELSE (IF Head(names) = <<>> THEN <<>> ELSE <<normalize_person_token(Head(names))>>)
         \o NormalizeNames(Tail(names))

\* parts are the names found in ContactMeeting, cleaned
RosterOf(m, parts) ==
    IF m.contact_names # <<>> /\ parts # <<>> THEN parts
    ELSE split_participants_string(m.participants)

derive_db_participants(m) ==
    RosterOf(m, TitleNonEmpty(expand_aliases(NormalizeNames(m.contact_names))))

-----------------------------------------------------------------------------
(* Scoring *)

PER_MILLI == ONE \div 1000       \* a thousandth in score units

\* round(x, 3) of x given in units of 1/(1000 * per): thousandths, ties to even
Round3(x, per) ==
    LET q == x \div per
        r == x % per
    IN  IF 2 * r > per THEN q + 1
        ELSE IF 2 * r = per THEN q + (q % 2)
        ELSE q

\* in thousandths
WEIGHT_TABLE ==
    [s \in {"1-on-1", "internal-sync", "external-sync", "note-to-self", "default"} |->
        CASE s = "1-on-1"        -> [overlap |-> 700, title |-> 150, time |-> 150]
          [] s = "internal-sync" -> [overlap |-> 650, title |-> 200, time |-> 150]
          [] s = "external-sync" -> [overlap |-> 750, title |-> 100, time |-> 150]
          [] s = "note-to-self"  -> [overlap |-> 600, title |-> 100, time |-> 300]
          [] OTHER               -> [overlap |-> 600, title |-> 250, time |-> 150]]

\* in thousandths
CONF_THRESHOLDS ==
    [s \in {"1-on-1", "internal-sync", "external-sync", "note-to-self", "default"} |->
        CASE s = "1-on-1"        -> 450
          [] s = "internal-sync" -> 420
          [] s = "external-sync" -> 350
          [] s = "note-to-self"  -> 350
          [] OTHER               -> 400]

\* table.get(session_type, table["default"])
Get(table, session_type) ==
    IF session_type \in DOMAIN table THEN table[session_type] ELSE table["default"]

\* {p.lower() for p in names}
LowerSet(names) == {Lower(names[i]) : i \in 1..Len(names)}

\* [p.strip() for p in (desired_participants or []) if p and p.strip()]
RECURSIVE StripNonBlank(_)
StripNonBlank(names) ==
    IF names = <<>> THEN <<>>
    ELSE (IF Strip(Head(names)) = <<>> THEN <<>> ELSE <<Strip(Head(names))>>)
         \o StripNonBlank(Tail(names))

\* lines 1395-1400: the time proximity; center_ms + m.end is what the
\* conditional expression of line 1396 yields for a row without a start
time_score_of(center_ms, lo_ms, hi_ms, m) ==
    LET t_first == IF m.start # NULL THEN m.start
                   ELSE IF m.end # NULL THEN center_ms + m.end
                   ELSE center_ms
        t_mid == IF m.start # NULL /\ m.end # NULL
                 THEN (m.start + m.end) \div 2
                 ELSE t_first
        span == Max2(1, hi_ms - lo_ms)
        away == Abs((IF t_mid = 0 THEN center_ms ELSE t_mid) - center_ms)
    IN  IF away >= span THEN 0 ELSE (ONE * (span - away)) \div span

\* set_bonus and set_penalty with a missing-member penalty that does not
\* grow with the number of missing members
SetTermsFlat(session_type, desired, dset, bset) ==
    LET extras == Max2(0, Cardinality(bset) - Cardinality(dset))
        missing == Cardinality(dset \ bset)
        pair == session_type = "1-on-1" /\ Cardinality(bset) = 2
                /\ Cardinality(dset) = 2 /\ dset = bset
    IN  IF desired = <<>> THEN [set_bonus |-> 0, set_penalty |-> 0]
        ELSE [set_bonus |-> (IF dset = bset THEN 250 ELSE 0) + (IF pair THEN 120 ELSE 0),
              set_penalty |->
                  (IF dset # bset /\ dset \subseteq bset THEN Min2(120, 40 * extras) ELSE 0)
                + (IF dset # bset /\ missing > 0 THEN 180 ELSE 0)
                + (IF session_type = "1-on-1" /\ ~pair /\ Cardinality(bset) > 2
                   THEN 100 ELSE 0)]

\* lines 1467-1493: set_bonus and set_penalty, in thousandths
SetTerms(session_type, desired, dset, bset) ==
    LET extras == Max2(0, Cardinality(bset) - Cardinality(dset))
        missing == Cardinality(dset \ bset)
        pair == session_type = "1-on-1" /\ Cardinality(bset) = 2
                /\ Cardinality(dset) = 2 /\ dset = bset
    IN  IF desired = <<>> THEN [set_bonus |-> 0, set_penalty |-> 0]
        ELSE [set_bonus |-> (IF dset = bset THEN 250 ELSE 0) + (IF pair THEN 120 ELSE 0),
              set_penalty |->
                  (IF dset # bset /\ dset \subseteq bset THEN Min2(120, 40 * extras) ELSE 0)
                + (IF dset # bset /\ missing > 0
                   THEN Min2(350, 180 + 100 * (missing - 1)) ELSE 0)
                + (IF session_type = "1-on-1" /\ ~pair /\ Cardinality(bset) > 2
                   THEN 100 ELSE 0)]

\* a weighted sum that keeps the table's weights when a snippet is present
WeightedUnscaled(w, has_snippet, overlap, title_score, time_score, transcript_score) ==
    w.overlap * overlap + w.title * title_score + w.time * time_score

\* lines 1501-1532: the weighted sum, in units of 1/(1000 * ONE)
Weighted(w, has_snippet, overlap, title_score, time_score, transcript_score) ==
    IF has_snippet
    THEN ((w.overlap * 2) \div 10) * overlap + ((w.title * 2) \div 10) * title_score
         + ((w.time * 5) \div 10) * time_score + 600 * transcript_score
    ELSE w.overlap * overlap + w.title * title_score + w.time * time_score

\* lines 1534-1547: (composite, parts) as one record, score the composite
Parts(m, composite, overlap, title_score, time_score, transcript_score, same_day_bonus, terms, group_size_penalty, db_parts, desired) ==
    [score |-> composite,
     id |-> m.id,
     overlap |-> Round3(overlap, PER_MILLI),
     title_score |-> Round3(title_score, PER_MILLI),
     time_score |-> Round3(time_score, PER_MILLI),
     transcript_score |-> Round3(transcript_score, PER_MILLI),
     same_day_bonus |-> same_day_bonus,
     set_bonus |-> terms.set_bonus,
     set_penalty |-> terms.set_penalty,
     group_size_penalty |-> group_size_penalty,
     composite |-> Round3(composite, ONE),
     db_parts |-> db_parts,
     desired_parts |-> desired]

Composed(w, m, has_snippet, overlap, title_score, time_score, transcript_score, same_day_bonus, terms, group_size_penalty, db_parts, desired) ==
    Parts(m,
          Weighted(w, has_snippet, overlap, title_score, time_score, transcript_score)
          + (same_day_bonus + terms.set_bonus - terms.set_penalty - group_size_penalty)
            * ONE,
          overlap, title_score, time_score, transcript_score,
          same_day_bonus, terms, group_size_penalty, db_parts, desired)

\* compute_score once db_parts and desired are known
ScoreParts(session_type, meeting_date, needle_title, center_ms, lo_ms, hi_ms, m, transcript_snippet, db_parts, desired) ==
    Composed(Get(WEIGHT_TABLE, session_type), m,
             transcript_snippet # NoText /\ transcript_snippet # <<>>,
             participant_overlap_fuzzy(desired, db_parts),
             title_similarity(OrEmpty(needle_title), OrEmpty(m.title)),
             time_score_of(center_ms, lo_ms, hi_ms, m),
             transcript_score_of(transcript_snippet, m.audio_transcript),
             IF same_local_calendar_day(meeting_date, m.start) THEN 100 ELSE 0,
             SetTerms(session_type, desired, LowerSet(desired), LowerSet(db_parts)),
             IF session_type = "note-to-self" /\ Len(db_parts) > 1 THEN 150 ELSE 0,
             db_parts, desired)

compute_score(session_type, meeting_date, needle_title, desired_participants, center_ms, lo_ms, hi_ms, m, transcript_snippet) ==
    ScoreParts(session_type, meeting_date, needle_title, center_ms, lo_ms, hi_ms, m,
               transcript_snippet, derive_db_participants(m),
               StripNonBlank(desired_participants))

-----------------------------------------------------------------------------
(* Matching: find_best_candidate *)

\* bool(x) of an Optional[int]
Truthy(x) == x # NULL /\ x # 0

\* bool(s) of an Optional[str]
NonEmpty(s) == s # NoText /\ s # <<>>

OVERLAP_LIMIT == 800
START_LIMIT == 500
DEBUG_LIMIT == 25

\* what find_best_candidate hands back: (row, reason, debug_rows), or the
\* exception that leaves it (raised); reason None is ""
Returned(row, reason, debug_rows) ==
    [raised |-> FALSE, row |-> row, reason |-> reason, debug_rows |-> debug_rows]
Raised == [raised |-> TRUE, row |-> NoRow, reason |-> "", debug_rows |-> <<>>]

\* a center that needs both timestamps once either is given
CenterOfBoth(p, lo_ms, hi_ms) ==
    IF p.quill_start_ms = NULL /\ p.quill_end_ms = NULL THEN (lo_ms + hi_ms) \div 2
    ELSE IF Truthy(p.quill_start_ms) /\ Truthy(p.quill_end_ms)
    THEN (p.quill_start_ms + p.quill_end_ms) \div 2
    ELSE NULL

\* center of the scoring window: lines 1610-1613; NULL stands for the
\* TypeError of int(None)
CenterOf(p, lo_ms, hi_ms) ==
    LET qs == p.quill_start_ms
        qe == p.quill_end_ms
    IN  IF qs = NULL /\ qe = NULL THEN (lo_ms + hi_ms) \div 2
        ELSE IF Truthy(qs) /\ Truthy(qe) THEN (qs + qe) \div 2
        ELSE IF Truthy(qs) THEN qs
        ELSE qe

\* the participant pre-filter of lines 1638-1649: TRUE when m is skipped
PreFiltered(p, m) ==
    LET dset == LowerSet(p.participants)
        bset == LowerSet(derive_db_participants(m))
    IN  /\ p.participants # <<>>
        /\ ~NonEmpty(p.transcript_snippet)
        /\ Cardinality(dset \cap bset) = 0
        /\ Cardinality(dset) >= 2

\* pd.get("session_type") or "default"
SessionOf(p) == IF p.session_type = "" THEN "default" ELSE p.session_type

\* pd.get("quill_title") or meeting_title
LookTitle(p) == IF NonEmpty(p.quill_title) THEN p.quill_title ELSE p.meeting_title

\* an element of scored: (score, m, meta)
Entry(m, meta) == [score |-> meta.score, m |-> m, meta |-> meta]

\* the scored list before sorting, in the order of cands
RECURSIVE ScoreAll(_, _, _, _, _)
ScoreAll(p, cands, center, lo_ms, hi_ms) ==
    IF cands = <<>> THEN <<>>
    ELSE IF ~HasAudio(Head(cands).audio_transcript) \/ PreFiltered(p, Head(cands))
    THEN ScoreAll(p, Tail(cands), center, lo_ms, hi_ms)
    ELSE <<Entry(Head(cands),
                 compute_score(SessionOf(p), p.meeting_date, LookTitle(p),
                               p.participants, center, lo_ms, hi_ms, Head(cands),
                               p.transcript_snippet))>>
         \o ScoreAll(p, Tail(cands), center, lo_ms, hi_ms)

\* scored.sort(key=lambda t: t[0], reverse=True): stable, descending
RECURSIVE InsertByScore(_, _)
InsertByScore(sorted, x) ==
    IF sorted = <<>> THEN <<x>>
    ELSE IF Head(sorted).score >= x.score
         THEN <<Head(sorted)>> \o InsertByScore(Tail(sorted), x)
         ELSE <<x>> \o sorted

RECURSIVE SortByScore(_)
SortByScore(scored) ==
    IF scored = <<>> THEN <<>>
    ELSE InsertByScore(SortByScore(SubSeq(scored, 1, Len(scored) - 1)),
                       scored[Len(scored)])

\* comp >= (thresh - 0.05) on round(composite, 3): in binary64 0.40 - 0.05 is
\* 0.35000000000000003, above the double of 0.35; 0.45 - 0.05, 0.42 - 0.05 and
\* 0.35 - 0.05 are the doubles of 0.4, 0.37 and 0.3
AtLeastRelaxed(comp, thresh) ==
    IF thresh = 400 THEN comp > thresh - 50 ELSE comp >= thresh - 50

\* the two rules of lines 1667-1691 tried in the other order
WindowBeforeTranscript(session_type, top_score, top) ==
    IF \/ /\ top_score >= Get(CONF_THRESHOLDS, session_type) * ONE
          /\ \/ top.overlap >= (IF session_type \in {"external-sync", "internal-sync"}
                                 THEN 600 ELSE 500)
             \/ /\ top.desired_parts # <<>>
                /\ LowerSet(top.desired_parts) = LowerSet(top.db_parts)
       \/ (top.overlap >= 900 /\ top.transcript_score >= 100)
    THEN "ranked_window"
    ELSE IF top.transcript_score >= 150 THEN "transcript" ELSE ""

\* the ranked_window rule without its overlap-and-transcript alternative
WindowByCompositeOnly(session_type, top_score, top) ==
    IF top.transcript_score >= 150 THEN "transcript"
    ELSE IF /\ top_score >= Get(CONF_THRESHOLDS, session_type) * ONE
            /\ \/ top.overlap >= (IF session_type \in {"external-sync", "internal-sync"}
                                   THEN 600 ELSE 500)
               \/ /\ top.desired_parts # <<>>
                  /\ LowerSet(top.desired_parts) = LowerSet(top.db_parts)
    THEN "ranked_window"
    ELSE ""

\* lines 1667-1691: the reason the top-ranked candidate is accepted with by
\* the transcript and ranked_window rules, "" when by neither
WindowRule(session_type, top_score, top) ==
    LET thresh == Get(CONF_THRESHOLDS, session_type)
        min_overlap == IF session_type \in {"external-sync", "internal-sync"}
                       THEN 600 ELSE 500
        ok_overlap == top.overlap >= min_overlap
        exact_set == /\ top.desired_parts # <<>>
                     /\ LowerSet(top.desired_parts) = LowerSet(top.db_parts)
    IN  IF top.transcript_score >= 150 THEN "transcript"
        ELSE IF \/ (top_score >= thresh * ONE /\ (ok_overlap \/ exact_set))
                \/ (top.overlap >= 900 /\ top.transcript_score >= 100)
             THEN "ranked_window"
             ELSE ""

\* lines 1694-1704
OverlapRule(session_type, top) ==
    LET thresh == Get(CONF_THRESHOLDS, session_type)
    IN  \/ /\ top.overlap >= 500
           /\ top.title_score >= 200
           /\ AtLeastRelaxed(top.composite, thresh)
        \/ top.transcript_score >= 300
        \/ top.title_score >= 250

\* lines 1706-1714: the scan keeps the first row of the strictly highest
\* title similarity; [best, best_s]
RECURSIVE TitleScan(_, _, _, _)
\* a scan that also keeps rows without a transcript
KeepAny(items, look_title, best, best_s, s) ==
    IF s > best_s
    THEN TitleScan(Tail(items), look_title, Head(items), s)
    ELSE TitleScan(Tail(items), look_title, best, best_s)

Keep(items, look_title, best, best_s, s) ==
    IF HasAudio(Head(items).audio_transcript) /\ s > best_s
    THEN TitleScan(Tail(items), look_title, Head(items), s)
    ELSE TitleScan(Tail(items), look_title, best, best_s)

TitleScan(items, look_title, best, best_s) ==
    IF items = <<>> THEN [best |-> best, best_s |-> best_s]
    ELSE Keep(items, look_title, best, best_s,
              title_similarity(OrEmpty(look_title), OrEmpty(Head(items).title)))

\* an id rule that is reached only once the day window has been computed
IdRuleInWindow(p, table) ==
    IF local_day_bounds_ms(p.meeting_date).raised
       \/ p.quill_meeting_id = NoId
       \/ ~HasAudio(fetch_by_id(table, p.quill_meeting_id).audio_transcript)
    THEN NoRow
    ELSE fetch_by_id(table, p.quill_meeting_id)

\* lines 1603-1607: the row the id rule returns, NoRow when it does not apply
IdRule(p, table) ==
    LET byId == fetch_by_id(table, p.quill_meeting_id)
    IN  IF p.quill_meeting_id # NoId /\ HasAudio(byId.audio_transcript)
        THEN byId ELSE NoRow

\* a scored list left in the order the candidates were fetched in
ScoredUnsorted(p, table, center, lo_ms, hi_ms) ==
    ScoreAll(p, Prefix(fetch_overlap_window(table, lo_ms, hi_ms), OVERLAP_LIMIT),
             center, lo_ms, hi_ms)

\* lines 1615-1662: the fetched candidates, scored and sorted
Scored(p, table, center, lo_ms, hi_ms) ==
    SortByScore(ScoreAll(p, Prefix(fetch_overlap_window(table, lo_ms, hi_ms),
                                   OVERLAP_LIMIT),
                         center, lo_ms, hi_ms))

\* line 1663
DebugRows(scored) == [i \in 1..Min2(DEBUG_LIMIT, Len(scored)) |-> scored[i].meta]

\* a title rule that hands back its row without a reason
TitleRuleBare(scan, debug_rows) ==
    IF scan.best # NoRow /\ scan.best_s >= 7 * TENTH
    THEN Returned(scan.best, "", debug_rows)
    ELSE Returned(NoRow, "", debug_rows)

\* lines 1706-1718
TitleRule(scan, debug_rows) ==
    IF scan.best # NoRow /\ scan.best_s >= 7 * TENTH
    THEN Returned(scan.best, "title", debug_rows)
    ELSE Returned(NoRow, "", debug_rows)

\* lines 1667-1718, by_window being what WindowRule says of the top candidate
\* ("" for an empty list) and items the rows of the title scan
Accept(p, scored, by_window, items) ==
    IF scored # <<>> /\ by_window # ""
    THEN Returned(scored[1].m, by_window, DebugRows(scored))
    ELSE IF scored # <<>> /\ OverlapRule(SessionOf(p), scored[1].meta)
    THEN Returned(scored[1].m, "ranked_overlap", DebugRows(scored))
    ELSE TitleRule(TitleScan(items, LookTitle(p), NoRow, 0), DebugRows(scored))

Ranked(p, scored, items) ==
    Accept(p, scored,
           IF scored = <<>> THEN ""
           ELSE WindowRule(SessionOf(p), scored[1].score, scored[1].meta),
           items)

\* lines 1609-1718
InWindow(p, table, center, lo_ms, hi_ms) ==
    IF center = NULL THEN Raised
    ELSE Ranked(p, Scored(p, table, center, lo_ms, hi_ms),
                Prefix(fetch_start_in_window(table, lo_ms, hi_ms), START_LIMIT))

AfterId(p, table, bounds) ==
    IF bounds.raised THEN Raised
    ELSE InWindow(p, table, CenterOf(p, bounds.lo, bounds.hi), bounds.lo, bounds.hi)

find_best_candidate(p, table, exists) ==
    IF ~exists THEN Returned(NoRow, "", <<>>)
    ELSE IF IdRule(p, table) # NoRow THEN Returned(IdRule(p, table), "id", <<>>)
    ELSE AfterId(p, table, local_day_bounds_ms(p.meeting_date))

-----------------------------------------------------------------------------
(* Meetings and pending records of the model *)

\* a transcript block as _parse_audio_blocks reads it: the keys the renderer
\* looks at, NoText for a key the block lacks
Named(speaker_id, source, text, speaker_name) ==
    [text |-> text, speaker_id |-> speaker_id, source |-> source,
     speaker_name |-> speaker_name]
Said(speaker_id, source, text) == Named(speaker_id, source, text, NoText)
Block(text) == Said(NoText, NoText, text)

ID1 == "11111111-1111-4111-8111-111111111111"
ID2 == "22222222-2222-4222-8222-222222222222"
ID3 == "33333333-3333-4333-8333-333333333333"
ID4 == "44444444-4444-4444-8444-444444444444"

\* noon UTC of 2024-03-01, in epoch hours
Noon == Calendar["2024-03-01"] * 24 + 12

RowJaneOneOnOne ==
    [id |-> ID1, title |-> <<"J","a","n","e"," ","D","o","e"," ","1",":","1">>,
     participants |-> <<"M","e",","," ","J","a","n","e"," ","D","o","e">>,
     contact_sids |-> <<>>, contact_names |-> <<>>,
     start |-> Noon - 2, end |-> Noon,
     audio_transcript |-> JsonBlob(<<Block(<<"h","e","l","l","o"," ","w","o","r","l","d">>)>>),
     deleteDate |-> NULL]

RowJaneNoAudio ==
    [id |-> ID1, title |-> <<"J","a","n","e"," ","D","o","e"," ","1",":","1">>,
     participants |-> <<"M","e",","," ","J","a","n","e"," ","D","o","e">>,
     contact_sids |-> <<>>, contact_names |-> <<>>,
     start |-> Noon - 2, end |-> Noon,
     audio_transcript |-> NoBlob,
     deleteDate |-> NULL]

RowJaneDeleted ==
    [id |-> ID1, title |-> <<"J","a","n","e"," ","D","o","e"," ","1",":","1">>,
     participants |-> <<"M","e",","," ","J","a","n","e"," ","D","o","e">>,
     contact_sids |-> <<>>, contact_names |-> <<>>,
     start |-> Noon - 2, end |-> Noon,
     audio_transcript |-> JsonBlob(<<Block(<<"h","e","l","l","o"," ","w","o","r","l","d">>)>>),
     deleteDate |-> 1]

RowJaneGarbage ==
    [id |-> ID1, title |-> <<"J","a","n","e"," ","D","o","e"," ","1",":","1">>,
     participants |-> <<"J","a","n","e"," ","D","o","e">>,
     contact_sids |-> <<>>, contact_names |-> <<>>,
     start |-> Noon - 2, end |-> Noon,
     audio_transcript |-> GarbageBlob,
     deleteDate |-> NULL]

RowRoadmap ==
    [id |-> ID2, title |-> <<"R","o","a","d","m","a","p">>,
     participants |-> NoText,
     contact_sids |-> <<>>, contact_names |-> <<>>,
     start |-> Noon + 2, end |-> Noon + 4,
     audio_transcript |-> JsonBlob(<<Block(<<"o","k"," ","s","o">>), Block(<<"B","o","b",":"," ","r","o","a","d","m","a","p">>)>>),
     deleteDate |-> NULL]

RowTeamSync ==
    [id |-> ID2, title |-> <<"T","e","a","m"," ","s","y","n","c">>,
     participants |-> <<"J","a","n","e"," ","D","o","e",","," ","B","o","b"," ","a","n","d"," ","A","l">>,
     contact_sids |-> <<>>, contact_names |-> <<>>,
     start |-> Noon + 16, end |-> Noon + 18,
     audio_transcript |-> JsonBlob(<<Block(<<"h","i"," ","a","l","l">>)>>),
     deleteDate |-> NULL]

RowBobAl ==
    [id |-> ID3, title |-> <<"Q","3"," ","p","l","a","n">>,
     participants |-> <<"B","o","b"," ","&"," ","A","l">>,
     contact_sids |-> <<>>, contact_names |-> <<>>,
     start |-> Noon - 20, end |-> Noon - 18,
     audio_transcript |-> JsonBlob(<<Block(<<"S","p","e","a","k","e","r"," ","1",":"," ","p","l","a","n">>)>>),
     deleteDate |-> NULL]

RowJaneContact ==
    [id |-> ID3, title |-> <<"P","l","a","n">>,
     participants |-> <<>>,
     contact_sids |-> <<<<"s","0">>, <<"s","1">>>>, contact_names |-> <<<<"j","a","n","e"," ","d","o","e"," ","(","A","c","m","e",")">>, <<"m","e">>>>,
     start |-> Noon - 6, end |-> Noon - 4,
     audio_transcript |-> JsonBlob(<<Block(<<"J","a","n","e",":"," ","h","i">>)>>),
     deleteDate |-> NULL]

RowLateRoadmap ==
    [id |-> ID4, title |-> <<"R","o","a","d"," ","m","a","p">>,
     participants |-> <<"A","l">>,
     contact_sids |-> <<>>, contact_names |-> <<>>,
     start |-> Noon + 36, end |-> Noon + 40,
     audio_transcript |-> JsonBlob(<<Block(<<"h","e","l","l","o"," ","w","o","r","l","d">>)>>),
     deleteDate |-> NULL]

RowNoEnd ==
    [id |-> ID4, title |-> <<"R","o","a","d","m","a","p">>,
     participants |-> <<"B","o","b">>,
     contact_sids |-> <<>>, contact_names |-> <<>>,
     start |-> Noon + 6, end |-> NULL,
     audio_transcript |-> JsonBlob(<<Block(<<"h","e","l","l","o"," ","w","o","r","l","d">>)>>),
     deleteDate |-> NULL]

RowLeap ==
    [id |-> ID4, title |-> <<"J","a","n","e"," ","1",":","1">>,
     participants |-> <<"J","a","n","e"," ","D","o","e">>,
     contact_sids |-> <<>>, contact_names |-> <<>>,
     start |-> Noon - 34, end |-> Noon - 32,
     audio_transcript |-> JsonBlob(<<Block(<<"h","e","l","l","o"," ","w","o","r","l","d">>)>>),
     deleteDate |-> NULL]

RowRoadmapEarly ==
    [id |-> ID4, title |-> <<"R","o","a","d","m","a","p">>,
     participants |-> NoText,
     contact_sids |-> <<>>, contact_names |-> <<>>,
     start |-> Noon - 4, end |-> Noon - 2,
     audio_transcript |-> JsonBlob(<<Block(<<"h","e","l","l","o"," ","w","o","r","l","d">>)>>),
     deleteDate |-> NULL]

RowBobEarly ==
    [id |-> ID3, title |-> <<"J","a","n","e"," ","D","o","e"," ","1",":","1">>,
     participants |-> <<"B","o","b">>,
     contact_sids |-> <<>>, contact_names |-> <<>>,
     start |-> Noon - 6, end |-> Noon - 4,
     audio_transcript |-> JsonBlob(<<Block(<<"h","e","l","l","o"," ","w","o","r","l","d">>)>>),
     deleteDate |-> NULL]

Meetings ==
    {RowJaneOneOnOne, RowJaneNoAudio, RowJaneDeleted, RowJaneGarbage,
     RowRoadmap, RowTeamSync, RowBobAl, RowJaneContact,
     RowLateRoadmap, RowNoEnd, RowLeap, RowRoadmapEarly,
     RowBobEarly}

TakeScenario ==
    [id |-> ID1, title |-> <<"P","l","a","n">>,
     participants |-> <<"J","a","n","e"," ","D","o","e">>,
     contact_sids |-> <<>>, contact_names |-> <<>>,
     start |-> Noon - 2, end |-> Noon,
     audio_transcript |-> JsonBlob(<<
        Said(<<"A">>, <<"m","i","c">>, <<"H","e","l","l","o">>),
        Said(<<"B">>, <<"r","e","m","o","t","e">>, <<"H","i"," ","t","h","e","r","e">>)>>),
     deleteDate |-> NULL]

TakeNoNames ==
    [id |-> ID1, title |-> <<>>,
     participants |-> NoText,
     contact_sids |-> <<>>, contact_names |-> <<>>,
     start |-> Noon - 2, end |-> Noon,
     audio_transcript |-> JsonBlob(<<
        Said(<<"A">>, <<"m","i","c">>, <<"H","e","l","l","o">>),
        Said(<<"B">>, <<"r","e","m","o","t","e">>, <<"H","i"," ","t","h","e","r","e">>)>>),
     deleteDate |-> NULL]

TakeTwoLocal ==
    [id |-> ID1, title |-> <<"P","l","a","n">>,
     participants |-> <<"J","a","n","e"," ","D","o","e",","," ","B","o","b">>,
     contact_sids |-> <<>>, contact_names |-> <<>>,
     start |-> Noon - 2, end |-> Noon,
     audio_transcript |-> JsonBlob(<<
        Said(<<"A">>, <<"m","i","c">>, <<"H","e","l","l","o">>),
        Said(<<"A">>, <<"M","I","C">>, <<"o","k">>),
        Said(<<"B">>, <<"l","o","c","a","l">>, <<"H","i">>),
        Said(<<"C">>, <<"r","e","m","o","t","e">>, <<"y","e","s">>)>>),
     deleteDate |-> NULL]

TakeTie ==
    [id |-> ID1, title |-> <<"P","l","a","n">>,
     participants |-> <<"B","o","b">>,
     contact_sids |-> <<>>, contact_names |-> <<>>,
     start |-> Noon - 2, end |-> Noon,
     audio_transcript |-> JsonBlob(<<
        Said(<<"B">>, <<"r","e","m","o","t","e">>, <<"x">>),
        Said(<<"B">>, <<"l","o","c","a","l","-","u","s","e","r">>, <<"H","i">>),
        Said(<<"A">>, <<"m","i","c">>, <<"H","e","l","l","o">>)>>),
     deleteDate |-> NULL]

TakeSelfTag ==
    [id |-> ID1, title |-> <<"P","l","a","n">>,
     participants |-> <<"B","o","b">>,
     contact_sids |-> <<>>, contact_names |-> <<>>,
     start |-> Noon - 2, end |-> Noon,
     audio_transcript |-> JsonBlob(<<
        Said(<<"A">>, <<"r","e","m","o","t","e">>, <<"H","e","l","l","o">>),
        Said(<<"B">>, <<" ","S","e","l","f">>, <<"H","i">>),
        Said(<<"C">>, <<"m","e">>, <<"y","o">>)>>),
     deleteDate |-> NULL]

TakeSameLabel ==
    [id |-> ID1, title |-> <<"P","l","a","n">>,
     participants |-> <<"J","a","n","e"," ","D","o","e">>,
     contact_sids |-> <<>>, contact_names |-> <<>>,
     start |-> Noon - 2, end |-> Noon,
     audio_transcript |-> JsonBlob(<<
        Named(<<"A">>, <<"r","e","m","o","t","e">>, <<"H","e","l","l","o">>, <<"B","o","b">>),
        Named(<<"B">>, <<"r","e","m","o","t","e">>, <<"H","i">>, <<" ","B","o","b"," ">>)>>),
     deleteDate |-> NULL]

TakeLabelMe ==
    [id |-> ID1, title |-> <<"P","l","a","n">>,
     participants |-> <<"J","a","n","e"," ","D","o","e">>,
     contact_sids |-> <<>>, contact_names |-> <<>>,
     start |-> Noon - 2, end |-> Noon,
     audio_transcript |-> JsonBlob(<<
        Said(<<"A">>, <<"m","i","c">>, <<"H","e","l","l","o">>),
        Named(<<"B">>, <<"r","e","m","o","t","e">>, <<"H","i">>, <<"M","e">>),
        Named(<<"C">>, <<"r","e","m","o","t","e">>, <<"y","o">>, <<"P","l","a","n">>)>>),
     deleteDate |-> NULL]

TakeInline ==
    [id |-> ID1, title |-> <<"J","a","n","e"," ","D","o","e",":"," ","s","y","n","c">>,
     participants |-> <<"J","a","n","e"," ","D","o","e">>,
     contact_sids |-> <<>>, contact_names |-> <<>>,
     start |-> Noon - 2, end |-> Noon,
     audio_transcript |-> JsonBlob(<<
        Said(<<"A">>, <<"r","e","m","o","t","e">>, <<"H","e","l","l","o">>),
        Said(<<"B">>, <<"r","e","m","o","t","e">>, <<"J","a","n","e"," ","D","o","e",":"," ","h","i">>),
        Said(<<"C">>, <<"r","e","m","o","t","e">>, <<"M","e",":"," ","n","o">>)>>),
     deleteDate |-> NULL]

TakeNoIds ==
    [id |-> ID1, title |-> <<"P","l","a","n">>,
     participants |-> <<"B","o","b"," ","a","n","d"," ","A","l">>,
     contact_sids |-> <<>>, contact_names |-> <<>>,
     start |-> Noon - 2, end |-> Noon,
     audio_transcript |-> JsonBlob(<<
        Said(NoText, <<"m","i","c">>, <<"x">>), Block(<<"y">>),
        Said(NoText, <<>>, <<"z">>),
        Said(NoText, <<"m","i","c">>, <<"w">>)>>),
     deleteDate |-> NULL]

TakeCrowd ==
    [id |-> ID1, title |-> <<"R","o","a","d","m","a","p">>,
     participants |-> NoText,
     contact_sids |-> <<>>, contact_names |-> <<>>,
     start |-> Noon - 2, end |-> Noon,
     audio_transcript |-> JsonBlob(<<
        Said(<<"A">>, <<"r","e","m","o","t","e">>, <<"a">>),
        Said(<<"B">>, <<"r","e","m","o","t","e">>, <<"b">>),
        Said(<<"C">>, <<"r","e","m","o","t","e">>, <<"c">>),
        Said(<<"A">>, <<"r","e","m","o","t","e">>, <<"d">>)>>),
     deleteDate |-> NULL]

TakeHinted ==
    [id |-> ID1, title |-> <<"P","l","a","n">>,
     participants |-> <<>>,
     contact_sids |-> <<<<"B">>, <<"C">>>>, contact_names |-> <<<<"Y","o","u","r"," ","N","a","m","e">>, <<"j","a","n","e"," ","d","o","e"," ","(","A","c","m","e",")">>>>,
     start |-> Noon - 2, end |-> Noon,
     audio_transcript |-> JsonBlob(<<
        Said(<<"A">>, <<"m","i","c">>, <<"H","e","l","l","o">>),
        Said(<<"B">>, <<"r","e","m","o","t","e">>, <<"H","i"," ","t","h","e","r","e">>),
        Said(<<"C">>, <<"r","e","m","o","t","e">>, <<"x">>)>>),
     deleteDate |-> NULL]

TakeNoStart ==
    [id |-> ID1, title |-> <<"P","l","a","n">>,
     participants |-> <<"B","o","b">>,
     contact_sids |-> <<>>, contact_names |-> <<>>,
     start |-> NULL, end |-> Noon,
     audio_transcript |-> JsonBlob(<<
        Said(<<"A">>, <<"m","i","c">>, <<"H","e","l","l","o">>),
        Said(<<"B">>, <<"r","e","m","o","t","e">>, <<"B","o","b",":"," ","h","i">>)>>),
     deleteDate |-> NULL]

TakeUndefined ==
    [id |-> ID1, title |-> <<>>,
     participants |-> NoText,
     contact_sids |-> <<>>, contact_names |-> <<>>,
     start |-> Noon - 2, end |-> Noon,
     audio_transcript |-> JsonBlob(<<
        Named(<<"A">>, <<"r","e","m","o","t","e">>, <<"H","e","l","l","o">>, <<"S","p","e","a","k","e","r"," ","2">>),
        Said(<<"B">>, <<"r","e","m","o","t","e">>, <<"H","i">>),
        Said(<<"C">>, <<"r","e","m","o","t","e">>, <<"y","o">>)>>),
     deleteDate |-> NULL]

TakeHintMe ==
    [id |-> ID1, title |-> <<"P","l","a","n">>,
     participants |-> <<>>,
     contact_sids |-> <<<<"B">>>>, contact_names |-> <<<<"m","e">>>>,
     start |-> Noon - 2, end |-> Noon,
     audio_transcript |-> JsonBlob(<<
        Said(<<"A">>, <<"m","i","c">>, <<"H","e","l","l","o">>),
        Said(<<"B">>, <<"r","e","m","o","t","e">>, <<"H","i"," ","t","h","e","r","e">>)>>),
     deleteDate |-> NULL]

TakeSnipped ==
    [id |-> ID1, title |-> <<"P","l","a","n">>,
     participants |-> <<"B","o","b">>,
     contact_sids |-> <<>>, contact_names |-> <<>>,
     start |-> Noon - 2, end |-> Noon,
     audio_transcript |-> JsonBlob(<<
        Said(<<"A">>, <<"m","i","c">>, <<"H","e","l","l","o"," ","<","S","N","I","P",">">>),
        Said(<<"B">>, <<"r","e","m","o","t","e">>, <<" "," ">>),
        Said(<<"A">>, <<"m","i","c">>, <<"a","g","a","i","n">>),
        Said(<<"B">>, <<"r","e","m","o","t","e">>, <<"<","S","N","I","P",">">>),
        Said(<<"B">>, <<"r","e","m","o","t","e">>, <<"H","i"," ","\n"," ","t","h","e","r","e">>),
        Said(<<"B">>, <<"r","e","m","o","t","e">>, <<"o","k">>)>>),
     deleteDate |-> NULL]

TakeHintPlan ==
    [id |-> ID1, title |-> <<"P","l","a","n">>,
     participants |-> <<>>,
     contact_sids |-> <<<<"A">>, <<"B">>>>, contact_names |-> <<<<"B","o","b">>, <<"P","l","a","n">>>>,
     start |-> Noon - 2, end |-> Noon,
     audio_transcript |-> JsonBlob(<<
        Said(<<"A">>, <<"m","i","c">>, <<"H","e","l","l","o">>),
        Said(<<"B">>, <<"r","e","m","o","t","e">>, <<"H","i"," ","t","h","e","r","e">>)>>),
     deleteDate |-> NULL]

\* recordings with diarized blocks, all of the same meeting
Takes ==
    {TakeScenario, TakeNoNames, TakeTwoLocal, TakeTie,
     TakeSelfTag, TakeSameLabel, TakeLabelMe, TakeInline,
     TakeNoIds, TakeCrowd, TakeHinted, TakeNoStart,
     TakeUndefined, TakeHintMe, TakeSnipped, TakeHintPlan}

PdBare ==
    [meeting_date |-> "2024-03-01", meeting_title |-> <<"R","o","a","d","m","a","p">>,
     session_type |-> "",
     participants |-> <<>>,
     quill_meeting_id |-> NoId, quill_start_ms |-> NULL, quill_end_ms |-> NULL,
     quill_title |-> NoText,
     transcript_snippet |-> NoText]

PdById ==
    [meeting_date |-> "2024-03-01", meeting_title |-> <<"R","o","a","d","m","a","p">>,
     session_type |-> "",
     participants |-> <<>>,
     quill_meeting_id |-> ID1, quill_start_ms |-> NULL, quill_end_ms |-> NULL,
     quill_title |-> NoText,
     transcript_snippet |-> NoText]

PdByIdBadDate ==
    [meeting_date |-> "2024/03/01", meeting_title |-> <<"R","o","a","d","m","a","p">>,
     session_type |-> "",
     participants |-> <<>>,
     quill_meeting_id |-> ID1, quill_start_ms |-> NULL, quill_end_ms |-> NULL,
     quill_title |-> NoText,
     transcript_snippet |-> NoText]

PdBadDate ==
    [meeting_date |-> "2024/03/01", meeting_title |-> <<"R","o","a","d","m","a","p">>,
     session_type |-> "",
     participants |-> <<>>,
     quill_meeting_id |-> NoId, quill_start_ms |-> NULL, quill_end_ms |-> NULL,
     quill_title |-> NoText,
     transcript_snippet |-> NoText]

PdJane ==
    [meeting_date |-> "2024-03-01", meeting_title |-> <<"J","a","n","e"," ","1",":","1">>,
     session_type |-> "1-on-1",
     participants |-> <<<<"J","a","n","e"," ","D","o","e">>>>,
     quill_meeting_id |-> NoId, quill_start_ms |-> NULL, quill_end_ms |-> NULL,
     quill_title |-> NoText,
     transcript_snippet |-> NoText]

PdJaneMe ==
    [meeting_date |-> "2024-03-01", meeting_title |-> <<"J","a","n","e"," ","1",":","1">>,
     session_type |-> "1-on-1",
     participants |-> <<<<"Y","o","u","r"," ","N","a","m","e">>, <<"J","a","n","e"," ","D","o","e">>>>,
     quill_meeting_id |-> NoId, quill_start_ms |-> NULL, quill_end_ms |-> NULL,
     quill_title |-> NoText,
     transcript_snippet |-> NoText]

PdSnippet ==
    [meeting_date |-> "2024-03-01", meeting_title |-> <<"C","a","l","l">>,
     session_type |-> "",
     participants |-> <<>>,
     quill_meeting_id |-> NoId, quill_start_ms |-> NULL, quill_end_ms |-> NULL,
     quill_title |-> NoText,
     transcript_snippet |-> <<"h","e","l","l","o"," ","w","o","r","l","d">>]

PdSnipLow ==
    [meeting_date |-> "2024-03-01", meeting_title |-> <<"C","a","l","l">>,
     session_type |-> "1-on-1",
     participants |-> <<<<"J","a","n","e"," ","D","o","e">>>>,
     quill_meeting_id |-> NoId, quill_start_ms |-> NULL, quill_end_ms |-> NULL,
     quill_title |-> NoText,
     transcript_snippet |-> <<"q","q","q","q","q","q","q","q","o">>]

PdSnipTwo ==
    [meeting_date |-> "2024-03-01", meeting_title |-> <<"C","a","l","l">>,
     session_type |-> "",
     participants |-> <<<<"J","a","n","e">>, <<"B","o","b">>>>,
     quill_meeting_id |-> NoId, quill_start_ms |-> NULL, quill_end_ms |-> NULL,
     quill_title |-> NoText,
     transcript_snippet |-> <<"z","z","z">>]

PdTwo ==
    [meeting_date |-> "2024-03-01", meeting_title |-> <<"C","a","l","l">>,
     session_type |-> "",
     participants |-> <<<<"J","a","n","e">>, <<"B","o","b">>>>,
     quill_meeting_id |-> NoId, quill_start_ms |-> NULL, quill_end_ms |-> NULL,
     quill_title |-> NoText,
     transcript_snippet |-> NoText]

PdTwoRoad ==
    [meeting_date |-> "2024-03-01", meeting_title |-> <<"R","o","a","d","m","a","p">>,
     session_type |-> "",
     participants |-> <<<<"J","a","n","e">>, <<"Z","e","d">>>>,
     quill_meeting_id |-> NoId, quill_start_ms |-> NULL, quill_end_ms |-> NULL,
     quill_title |-> NoText,
     transcript_snippet |-> NoText]

PdDup ==
    [meeting_date |-> "2024-03-01", meeting_title |-> <<"C","a","l","l">>,
     session_type |-> "",
     participants |-> <<<<"Z","e","d">>, <<"z","e","d">>>>,
     quill_meeting_id |-> NoId, quill_start_ms |-> NULL, quill_end_ms |-> NULL,
     quill_title |-> NoText,
     transcript_snippet |-> NoText]

PdOne ==
    [meeting_date |-> "2024-03-01", meeting_title |-> <<"C","a","l","l">>,
     session_type |-> "",
     participants |-> <<<<"Z","e","d">>>>,
     quill_meeting_id |-> NoId, quill_start_ms |-> NULL, quill_end_ms |-> NULL,
     quill_title |-> NoText,
     transcript_snippet |-> NoText]

PdBobZed ==
    [meeting_date |-> "2024-03-01", meeting_title |-> <<"Q","3"," ","p","l","a","n">>,
     session_type |-> "default",
     participants |-> <<<<"B","o","b">>, <<"Z","e","d">>>>,
     quill_meeting_id |-> NoId, quill_start_ms |-> Noon + 30, quill_end_ms |-> NULL,
     quill_title |-> NoText,
     transcript_snippet |-> NoText]

PdBobZedSync ==
    [meeting_date |-> "2024-03-01", meeting_title |-> <<"Q","3"," ","p","l","a","n">>,
     session_type |-> "internal-sync",
     participants |-> <<<<"B","o","b">>, <<"Z","e","d">>>>,
     quill_meeting_id |-> NoId, quill_start_ms |-> Noon + 30, quill_end_ms |-> NULL,
     quill_title |-> NoText,
     transcript_snippet |-> NoText]

PdBobAl ==
    [meeting_date |-> "2024-03-01", meeting_title |-> <<"Q","3"," ","p","l","a","n">>,
     session_type |-> "internal-sync",
     participants |-> <<<<"B","o","b">>, <<"A","l">>>>,
     quill_meeting_id |-> NoId, quill_start_ms |-> NULL, quill_end_ms |-> NULL,
     quill_title |-> NoText,
     transcript_snippet |-> NoText]

PdStart ==
    [meeting_date |-> "2024-03-01", meeting_title |-> <<"R","o","a","d","m","a","p">>,
     session_type |-> "",
     participants |-> <<>>,
     quill_meeting_id |-> NoId, quill_start_ms |-> Noon + 16, quill_end_ms |-> NULL,
     quill_title |-> NoText,
     transcript_snippet |-> NoText]

PdEnd ==
    [meeting_date |-> "2024-03-01", meeting_title |-> <<"R","o","a","d","m","a","p">>,
     session_type |-> "",
     participants |-> <<>>,
     quill_meeting_id |-> NoId, quill_start_ms |-> NULL, quill_end_ms |-> Noon + 18,
     quill_title |-> NoText,
     transcript_snippet |-> NoText]

PdBoth ==
    [meeting_date |-> "2024-03-01", meeting_title |-> <<"R","o","a","d","m","a","p">>,
     session_type |-> "",
     participants |-> <<>>,
     quill_meeting_id |-> NoId, quill_start_ms |-> Noon + 16, quill_end_ms |-> Noon + 18,
     quill_title |-> NoText,
     transcript_snippet |-> NoText]

PdLeap ==
    [meeting_date |-> "2024-02-29", meeting_title |-> <<"J","a","n","e"," ","1",":","1">>,
     session_type |-> "",
     participants |-> <<<<"J","a","n","e"," ","D","o","e">>>>,
     quill_meeting_id |-> NoId, quill_start_ms |-> NULL, quill_end_ms |-> NULL,
     quill_title |-> NoText,
     transcript_snippet |-> NoText]

PdQTitle ==
    [meeting_date |-> "2024-03-01", meeting_title |-> <<"C","a","l","l">>,
     session_type |-> "",
     participants |-> <<>>,
     quill_meeting_id |-> NoId, quill_start_ms |-> NULL, quill_end_ms |-> NULL,
     quill_title |-> <<"T","e","a","m"," ","s","y","n","c">>,
     transcript_snippet |-> NoText]

PdNote ==
    [meeting_date |-> "2024-03-01", meeting_title |-> <<"P","l","a","n">>,
     session_type |-> "note-to-self",
     participants |-> <<<<"M","e">>>>,
     quill_meeting_id |-> NoId, quill_start_ms |-> NULL, quill_end_ms |-> NULL,
     quill_title |-> NoText,
     transcript_snippet |-> NoText]

PdExt ==
    [meeting_date |-> "2024-03-01", meeting_title |-> <<"T","e","a","m"," ","s","y","n","c">>,
     session_type |-> "external-sync",
     participants |-> <<<<"J","a","n","e"," ","D","o","e">>, <<"B","o","b">>, <<"A","l">>>>,
     quill_meeting_id |-> NoId, quill_start_ms |-> NULL, quill_end_ms |-> NULL,
     quill_title |-> NoText,
     transcript_snippet |-> NoText]

PdOdd ==
    [meeting_date |-> "2024-03-01", meeting_title |-> <<"R","o","a","d","m","a","p">>,
     session_type |-> "weird",
     participants |-> <<>>,
     quill_meeting_id |-> NoId, quill_start_ms |-> NULL, quill_end_ms |-> NULL,
     quill_title |-> NoText,
     transcript_snippet |-> NoText]

PdSnipJane ==
    [meeting_date |-> "2024-03-01", meeting_title |-> <<"J","a","n","e"," ","1",":","1">>,
     session_type |-> "1-on-1",
     participants |-> <<<<"J","a","n","e"," ","D","o","e">>>>,
     quill_meeting_id |-> NoId, quill_start_ms |-> NULL, quill_end_ms |-> NULL,
     quill_title |-> NoText,
     transcript_snippet |-> <<"h","e","l","l","o"," ","w","o","r","l","d">>]

PdStrangers ==
    [meeting_date |-> "2024-03-01", meeting_title |-> <<"J","a","n","e"," ","D","o","e"," ","1",":","1">>,
     session_type |-> "",
     participants |-> <<<<"Z","e","d">>, <<"Y","a","n">>>>,
     quill_meeting_id |-> NoId, quill_start_ms |-> NULL, quill_end_ms |-> NULL,
     quill_title |-> NoText,
     transcript_snippet |-> NoText]

PdZeroStart ==
    [meeting_date |-> "2024-03-01", meeting_title |-> <<"R","o","a","d","m","a","p">>,
     session_type |-> "",
     participants |-> <<>>,
     quill_meeting_id |-> NoId, quill_start_ms |-> 0, quill_end_ms |-> NULL,
     quill_title |-> NoText,
     transcript_snippet |-> NoText]

PdSnipHi ==
    [meeting_date |-> "2024-03-01", meeting_title |-> <<"C","a","l","l">>,
     session_type |-> "",
     participants |-> <<>>,
     quill_meeting_id |-> NoId, quill_start_ms |-> NULL, quill_end_ms |-> NULL,
     quill_title |-> NoText,
     transcript_snippet |-> <<"h","i">>]

PdReview ==
    [meeting_date |-> "2024-03-01", meeting_title |-> <<"R","e","v","i","e","w"," ","b","u","d","g","e","t"," ","q","u","a","r","t","e","r","l","y">>,
     session_type |-> "default",
     participants |-> <<<<"B","o","b">>, <<"Z","e","d">>>>,
     quill_meeting_id |-> NoId, quill_start_ms |-> Noon + 32, quill_end_ms |-> NULL,
     quill_title |-> NoText,
     transcript_snippet |-> NoText]

PdMoved ==
    [meeting_date |-> "2024-02-29", meeting_title |-> <<"T","e","a","m"," ","s","y","n","c">>,
     session_type |-> "",
     participants |-> <<>>,
     quill_meeting_id |-> NoId, quill_start_ms |-> Noon + 16, quill_end_ms |-> Noon + 18,
     quill_title |-> NoText,
     transcript_snippet |-> NoText]

Pendings ==
    {PdBare, PdById, PdByIdBadDate, PdBadDate,
     PdJane, PdJaneMe, PdSnippet, PdSnipLow,
     PdSnipTwo, PdTwo, PdTwoRoad, PdDup,
     PdOne, PdBobZed, PdBobZedSync, PdBobAl,
     PdStart, PdEnd, PdBoth, PdLeap,
     PdQTitle, PdNote, PdExt, PdOdd,
     PdSnipJane, PdStrangers, PdZeroStart, PdSnipHi,
     PdReview, PdMoved}

-----------------------------------------------------------------------------
(* Speaker attribution *)

\* a speaker map (Dict[str, str]) is a function from speaker keys to display
\* names, both texts; mapping[k] = v
Put(mapping, k, v) ==
    [x \in DOMAIN mapping \cup {k} |-> IF x = k THEN v ELSE mapping[x]]

\* str(n) of a non-negative int
DigitSeq == <<"0","1","2","3","4","5","6","7","8","9">>
RECURSIVE Decimal(_)
Decimal(n) ==
    IF n < 10 THEN <<DigitSeq[n + 1]>>
    ELSE Decimal(n \div 10) \o <<DigitSeq[(n % 10) + 1]>>

\* s.split(): the maximal runs of non-whitespace
RECURSIVE Words(_, _)
Words(s, cur) ==
    IF s = <<>> THEN (IF cur = <<>> THEN <<>> ELSE <<cur>>)
    ELSE IF Head(s) \in Spaces
         THEN (IF cur = <<>> THEN <<>> ELSE <<cur>>) \o Words(Tail(s), <<>>)
         ELSE Words(Tail(s), cur \o <<Head(s)>>)

\* re.split on a set of one-character separators
RECURSIVE SplitAt(_, _, _)
SplitAt(s, seps, cur) ==
    IF s = <<>> THEN <<cur>>
    ELSE IF Head(s) \in seps
         THEN <<cur>> \o SplitAt(Tail(s), seps, <<>>)
         ELSE SplitAt(Tail(s), seps, cur \o <<Head(s)>>)

\* s[:i] for the first index i of a character of seps, s when there is none
RECURSIVE Before(_, _)
Before(s, seps) ==
    IF s = <<>> \/ Head(s) \in seps THEN <<>>
    ELSE <<Head(s)>> \o Before(Tail(s), seps)

ME_FULLNAME == MY_CANONICAL_NAME
ME_ALIASES == MY_ALIASES

_norm_name(s) == CollapseSpaces(Lower(Strip(OrEmpty(s))))

_is_me(name) ==
    /\ _norm_name(name) # <<>>
    /\ \/ _norm_name(name) \in ME_ALIASES
       \/ Range(Words(_norm_name(name), <<>>))
            \cap Range(Words(Lower(MY_CANONICAL_NAME), <<>>)) # {}

\* of the keys _extract_explicit_label looks for, blocks carry speaker_name
_extract_explicit_label(block) ==
    IF block.speaker_name # NoText /\ Strip(block.speaker_name) # <<>>
    THEN Strip(block.speaker_name)
    ELSE NoText

\* idx is 0-based; of the id keys blocks carry speaker_id, and none has a
\* cluster
_speaker_key(block, idx) ==
    IF block.speaker_id # NoText THEN <<"i","d",":">> \o block.speaker_id
    ELSE IF NonEmpty(block.source) THEN <<"s","r","c",":">> \o block.source
    ELSE <<"i","d","x",":">> \o Decimal(idx)

\* lines 302-310: the blocks that count for a speaker_id
LocalTagged(blocks) ==
    {i \in 1..Len(blocks) :
        /\ blocks[i].speaker_id # NoText
        /\ Lower(OrEmpty(blocks[i].source))
             \in {<<"m","i","c">>, <<"l","o","c","a","l">>, <<"l","o","c","a","l","-","u","s","e","r">>}}

CountOf(blocks, sid) ==
    Cardinality({i \in LocalTagged(blocks) : blocks[i].speaker_id = sid})

\* sorted(counts.items(), key=count, reverse=True)[0][0]: the sort is stable
\* and a dict keeps insertion order, so the first-counted id wins a tie;
\* NoText is None
_pick_me_speaker_id(blocks) ==
    IF LocalTagged(blocks) = {} THEN NoText
    ELSE blocks[CHOOSE i \in LocalTagged(blocks) :
                   \A j \in LocalTagged(blocks) :
                      \/ CountOf(blocks, blocks[i].speaker_id)
                           > CountOf(blocks, blocks[j].speaker_id)
                      \/ /\ CountOf(blocks, blocks[i].speaker_id)
                              = CountOf(blocks, blocks[j].speaker_id)
                         /\ i <= j].speaker_id

\* lines 726-734 for one of the two titles, nl being normalize_title(label)
TitleLike(nl, t) ==
    /\ normalize_title(Before(t, {":"})) # <<>>
    /\ \/ /\ nl # <<>>
          /\ Contains(normalize_title(Before(t, {":"})), nl)
       \/ 100 * Ratio(nl, normalize_title(Before(t, {":"}))) >= 78 * ONE

_looks_like_title_fragment(label, quill_title, meeting_title) ==
    /\ NonEmpty(label)
    /\ \/ Contains(label, <<"<",">">>)
       \/ TitleLike(normalize_title(label), OrEmpty(quill_title))
       \/ TitleLike(normalize_title(label), OrEmpty(meeting_title))

\* re.match(r"^([A-Za-z][A-Za-z .'-]{0,40}?):\s+", txt).group(1), NoText when
\* there is no match: the class holds no colon, so the group ends at the
\* first colon
InlineName(txt) ==
    IF /\ Len(Before(txt, {":"})) \in 1..41
       /\ Len(Before(txt, {":"})) + 2 <= Len(txt)
       /\ txt[1] \in Letters
       /\ Range(Before(txt, {":"})) \subseteq Letters \cup {" ", ".", "'", "-"}
       /\ txt[Len(Before(txt, {":"})) + 2] \in Spaces
    THEN Before(txt, {":"})
    ELSE NoText

\* the loop state of _first_appearance_mapping: mapping, used_names and
\* next_non_me_ix
Naming(mapping, used_names, next_non_me_ix) ==
    [mapping |-> mapping, used_names |-> used_names, next_non_me_ix |-> next_non_me_ix]

\* mapping[key] = name; used_names.add(_norm_name(name))
Bound(st, key, name) ==
    Naming(Put(st.mapping, key, name), st.used_names \cup {_norm_name(name)},
           st.next_non_me_ix)

\* lines 779-783: the anchor
Anchored(me_sid) ==
    IF me_sid # NoText
    THEN Bound(Naming(<<>>, {}, 0), <<"i","d",":">> \o me_sid, ME_FULLNAME)
    ELSE Naming(<<>>, {}, 0)

\* lines 787-792: seed from explicit labels, from the 1-based block i on
RECURSIVE Seeded(_, _, _, _, _)
Seeded(blocks, i, st, quill_title, meeting_title) ==
    IF i > Len(blocks) THEN st
    ELSE Seeded(blocks, i + 1,
                IF /\ _extract_explicit_label(blocks[i]) # NoText
                   /\ ~_looks_like_title_fragment(_extract_explicit_label(blocks[i]),
                                                  quill_title, meeting_title)
                THEN Bound(st, _speaker_key(blocks[i], i - 1),
                           _extract_explicit_label(blocks[i]))
                ELSE st,
                quill_title, meeting_title)

\* a merge in which a saved override replaces the name a key already has
MergedOver(st, overrides) ==
    Naming([k \in DOMAIN st.mapping
                   \cup {o \in DOMAIN overrides : overrides[o] # <<>>} |->
               IF k \in DOMAIN overrides /\ overrides[k] # <<>> THEN overrides[k]
               ELSE st.mapping[k]],
           st.used_names
             \cup {_norm_name(overrides[o]) : o \in {x \in DOMAIN overrides : overrides[x] # <<>>}},
           st.next_non_me_ix)

\* lines 795-798: merge the saved overrides
Merged(st, overrides) ==
    Naming([k \in DOMAIN st.mapping
                   \cup {o \in DOMAIN overrides : overrides[o] # <<>>} |->
               IF k \in DOMAIN st.mapping THEN st.mapping[k] ELSE overrides[k]],
           st.used_names
             \cup {_norm_name(overrides[o]) :
                     o \in {x \in DOMAIN overrides :
                              overrides[x] # <<>> /\ x \notin DOMAIN st.mapping}},
           st.next_non_me_ix)

\* [n for n in pref_names if not _is_me(n)]
RECURSIVE NonMe(_)
NonMe(names) ==
    IF names = <<>> THEN <<>>
    ELSE (IF _is_me(Head(names)) THEN <<>> ELSE <<Head(names)>>) \o NonMe(Tail(names))

\* lines 824-825, ix being 0-based
RECURSIVE SkipUsed(_, _, _)
SkipUsed(pref_non_me, ix, used_names) ==
    IF ix < Len(pref_non_me) /\ _norm_name(pref_non_me[ix + 1]) \in used_names
    THEN SkipUsed(pref_non_me, ix + 1, used_names)
    ELSE ix

\* f"Speaker {anon_ix+1}"
Placeholder(mapping) ==
    <<"S","p","e","a","k","e","r"," ">>
      \o Decimal(Cardinality({k \in DOMAIN mapping :
                                StartsWith(mapping[k], <<"S","p","e","a","k","e","r"," ">>)}) + 1)

\* lines 826-833, ix being where the while loop stopped
AssignNext(st, key, pref_non_me, ix) ==
    IF ix < Len(pref_non_me)
    THEN Naming(Put(st.mapping, key, pref_non_me[ix + 1]),
                st.used_names \cup {_norm_name(pref_non_me[ix + 1])},
                ix + 1)
    ELSE Naming(Put(st.mapping, key, Placeholder(st.mapping)), st.used_names, ix)

\* lines 804-833 for one block, guessed being the inline name of its text
Visit(st, block, key, pref_non_me, guessed) ==
    IF key \in DOMAIN st.mapping THEN st
    ELSE IF _norm_name(block.source) \in {<<"m","e">>, <<"l","o","c","a","l">>, <<"l","o","c","a","l","_","u","s","e","r">>, <<"s","e","l","f">>}
    THEN Bound(st, key, ME_FULLNAME)
    ELSE IF guessed # NoText /\ ~_is_me(guessed)
    THEN Bound(st, key, Strip(guessed))
    ELSE AssignNext(st, key, pref_non_me,
                    SkipUsed(pref_non_me, st.next_non_me_ix, st.used_names))

RECURSIVE Walk(_, _, _, _)
Walk(blocks, i, st, pref_non_me) ==
    IF i > Len(blocks) THEN st
    ELSE Walk(blocks, i + 1,
              Visit(st, blocks[i], _speaker_key(blocks[i], i - 1), pref_non_me,
                    InlineName(Strip(OrEmpty(blocks[i].text)))),
              pref_non_me)

\* lines 836-838
Canonicalized(mapping) ==
    [k \in DOMAIN mapping |-> IF _is_me(mapping[k]) THEN ME_FULLNAME ELSE mapping[k]]

_first_appearance_mapping(blocks, pref_names, overrides, quill_title, meeting_title) ==
    Canonicalized(
        Walk(blocks, 1,
             Merged(Seeded(blocks, 1, Anchored(_pick_me_speaker_id(blocks)),
                           quill_title, meeting_title),
                    overrides),
             NonMe(pref_names)).mapping)

\* txt.replace("<SNIP>", "")
RECURSIVE WithoutSnip(_)
WithoutSnip(txt) ==
    IF txt = <<>> THEN <<>>
    ELSE IF StartsWith(txt, <<"<","S","N","I","P",">">>) THEN WithoutSnip(From(txt, 6))
    ELSE <<Head(txt)>> \o WithoutSnip(Tail(txt))

\* lines 847-852: the text a block adds to an utterance, <<>> when the block
\* is passed over
Spoken(block) ==
    IF Strip(OrEmpty(block.text)) = <<>> THEN <<>>
    ELSE Strip(WithoutSnip(Strip(OrEmpty(block.text))))

\* a flush that keeps the last text of the buffer only
FlushedLast(grouped, last_key, buf) ==
    Append(grouped, [key |-> last_key, utterance |-> buf[Len(buf)]])

\* grouped.append((last_key, " ".join(buf).strip()))
Flushed(grouped, last_key, buf) ==
    Append(grouped, [key |-> last_key, utterance |-> Strip(Join(buf, <<" ">>))])

\* lines 845-859 from the 1-based block i on; last_key None is NoText
RECURSIVE Grouped(_, _, _, _, _)
Grouped(blocks, i, grouped, last_key, buf) ==
    IF i > Len(blocks)
    THEN (IF buf # <<>> /\ last_key # NoText THEN Flushed(grouped, last_key, buf)
          ELSE grouped)
    ELSE IF Spoken(blocks[i]) = <<>>
    THEN Grouped(blocks, i + 1, grouped, last_key, buf)
    ELSE IF _speaker_key(blocks[i], i - 1) # last_key /\ buf # <<>>
    THEN Grouped(blocks, i + 1, Flushed(grouped, last_key, buf),
                 _speaker_key(blocks[i], i - 1), <<Spoken(blocks[i])>>)
    ELSE Grouped(blocks, i + 1, grouped, _speaker_key(blocks[i], i - 1),
                 Append(buf, Spoken(blocks[i])))

_group_consecutive_blocks(blocks) == Grouped(blocks, 1, <<>>, NoText, <<>>)

\* add_many: order extended by the names of seq whose _norm_name is new
RECURSIVE AddMany(_, _)
AddMany(order, seq) ==
    IF seq = <<>> THEN order
    ELSE AddMany(IF \/ _norm_name(Head(seq)) = <<>>
                    \/ \E i \in 1..Len(order) :
                          _norm_name(order[i]) = _norm_name(Head(seq))
                 THEN order
                 ELSE Append(order, Head(seq)),
                 Tail(seq))

\* the first me-ish name moved to the front
MeFirst(names) ==
    IF \E i \in 1..Len(names) : _is_me(names[i])
    THEN LET k == CHOOSE i \in 1..Len(names) :
                     _is_me(names[i]) /\ \A j \in 1..(i - 1) : ~_is_me(names[j])
         IN  <<names[k]>> \o SubSeq(names, 1, k - 1) \o SubSeq(names, k + 1, Len(names))
    ELSE names

\* split_title of _title_people_order: the lead before the first of | - :
\* (the dashes of the pattern are outside the model's alphabet), & read as /
split_title(t) ==
    IF t = <<>> THEN <<>>
    ELSE StripNonBlank(SplitAt(RStrip(Before(t, {"|", "-", ":"})),
                               {"/", ",", ";", "&"}, <<>>))

_title_people_order(quill_title, meeting_title) ==
    MeFirst(AddMany(AddMany(<<>>, split_title(OrEmpty(quill_title))),
                    split_title(OrEmpty(meeting_title))))

\* re.sub(r"\s+and\s+", ",", s, flags=re.I)
RECURSIVE AndToComma(_)
AndToComma(s) ==
    IF s = <<>> THEN <<>>
    ELSE IF /\ Head(s) \in Spaces
            /\ StartsWith(Lower(From(s, SkipWhile(s, 1, Spaces) - 1)), <<"a","n","d">>)
            /\ SkipWhile(s, 1, Spaces) + 3 <= Len(s)
            /\ s[SkipWhile(s, 1, Spaces) + 3] \in Spaces
         THEN <<",">> \o AndToComma(From(s, SkipWhile(s, SkipWhile(s, 1, Spaces) + 3,
                                                      Spaces) - 1))
         ELSE <<Head(s)>> \o AndToComma(Tail(s))

\* re.sub(r"\s*\([^)]*\)\s*", "", p)
RECURSIVE DropParensWide(_)
DropParensWide(s) ==
    IF s = <<>> THEN <<>>
    ELSE IF /\ SkipWhile(s, 1, Spaces) <= Len(s)
            /\ s[SkipWhile(s, 1, Spaces)] = "("
            /\ ")" \in Range(From(s, SkipWhile(s, 1, Spaces)))
         THEN DropParensWide(
                  From(s, SkipWhile(s, SkipWhile(s, 1, Spaces)
                                         + Len(Before(From(s, SkipWhile(s, 1, Spaces)),
                                                      {")"})) + 2,
                                    Spaces) - 1))
         ELSE <<Head(s)>> \o DropParensWide(Tail(s))

\* lines 514-522 for the parts of the split
RECURSIVE People(_, _)
People(parts, out) ==
    IF parts = <<>> THEN out
    ELSE People(Tail(parts),
                AddMany(out,
                        <<IF _norm_name(Strip(DropParensWide(Head(parts))))
                               \in {<<"a","n","d">>, <<"m","e">>, <<"m","y","s","e","l","f">>}
                          THEN <<"m","e">>
                          ELSE Strip(DropParensWide(Head(parts)))>>))

\* the fullwidth comma of the pattern is outside the model's alphabet
_parse_people_from_free_text(s) ==
    IF s = <<>> THEN <<>>
    ELSE People(StripNonBlank(SplitAt(AndToComma(s), {",", ";"}, <<>>)), <<>>)

_merge_name_sources(quill_title, meeting_title, db_participants, desired_participants) ==
    MeFirst(AddMany(AddMany(AddMany(<<>>, _title_people_order(quill_title, meeting_title)),
                            desired_participants),
                    _parse_people_from_free_text(OrEmpty(db_participants))))

\* lines 894-895
WithMe(pref_names) ==
    IF \E i \in 1..Len(pref_names) : pref_names[i] = ME_FULLNAME
    THEN pref_names
    ELSE <<ME_FULLNAME>> \o pref_names

\* lines 918-921: the ContactMeeting names laid over the mapping
Hinted(mapping, contact_speakers, quill_title, meeting_title) ==
    [k \in DOMAIN mapping
            \cup {c \in DOMAIN contact_speakers :
                    /\ contact_speakers[c] # <<>>
                    /\ ~_looks_like_title_fragment(contact_speakers[c],
                                                   quill_title, meeting_title)} |->
        IF /\ k \in DOMAIN contact_speakers
           /\ contact_speakers[k] # <<>>
           /\ ~_looks_like_title_fragment(contact_speakers[k], quill_title, meeting_title)
        THEN contact_speakers[k]
        ELSE mapping[k]]

\* lines 924-930: the local speaker added when ContactMeeting lacks it
WithLocal(mapping, contact_speakers, me_speaker_id) ==
    IF /\ NonEmpty(me_speaker_id)
       /\ (<<"i","d",":">> \o me_speaker_id) \notin DOMAIN contact_speakers
       /\ \/ (<<"i","d",":">> \o me_speaker_id) \notin DOMAIN mapping
          \/ mapping[<<"i","d",":">> \o me_speaker_id] = <<"S","p","e","a","k","e","r">>
    THEN Put(mapping, <<"i","d",":">> \o me_speaker_id, ME_FULLNAME)
    ELSE mapping

\* the mapping _render_transcript_body returns
SpeakerMap(blocks, pref_names, stored_overrides, contact_speakers, quill_title, meeting_title) ==
    IF DOMAIN contact_speakers = {}
    THEN _first_appearance_mapping(blocks, pref_names, stored_overrides,
                                   quill_title, meeting_title)
    ELSE WithLocal(Hinted(_first_appearance_mapping(blocks, pref_names, stored_overrides,
                                                    quill_title, meeting_title),
                          contact_speakers, quill_title, meeting_title),
                   contact_speakers, _pick_me_speaker_id(blocks))

\* re.sub(r"\s+\n\s+|\n+", " ", s): a run of whitespace with a newline
\* strictly inside it becomes one space, and so does a run of newlines
RECURSIVE Flattened(_)
Flattened(s) ==
    IF s = <<>> THEN <<>>
    ELSE IF \E j \in 2..(SkipWhile(s, 1, Spaces) - 2) : s[j] = "\n"
    THEN <<" ">> \o Flattened(From(s, SkipWhile(s, 1, Spaces) - 1))
    ELSE IF Head(s) = "\n"
    THEN <<" ">> \o Flattened(From(s, SkipWhile(s, 1, {"\n"}) - 1))
    ELSE <<Head(s)>> \o Flattened(Tail(s))

\* lines 932-937: id_counts, one count for each grouped utterance of a key
IdCounts(grouped_pairs) ==
    [k \in {grouped_pairs[i].key : i \in 1..Len(grouped_pairs)} |->
        Cardinality({i \in 1..Len(grouped_pairs) : grouped_pairs[i].key = k})]

\* lines 938-941: the body lines, each ending in a newline
RECURSIVE BodyLines(_)
BodyLines(grouped_pairs) ==
    IF grouped_pairs = <<>> THEN <<>>
    ELSE (IF Flattened(Strip(Head(grouped_pairs).utterance)) = <<>> THEN <<>>
          ELSE <<Flattened(Strip(Head(grouped_pairs).utterance)) \o <<"\n">>>>)
         \o BodyLines(Tail(grouped_pairs))

\* line 943: "\n".join(body_lines).strip()
BodyOf(grouped_pairs) == Strip(Join(BodyLines(grouped_pairs), <<"\n">>))

\* ", ".join(names)
JoinNames(names) == Join(names, <<","," ">>)

\* lines 887-930 of _render_transcript_body: the speaker map
_render_transcript_body(blocks, meeting_title, quill_title, db_participants_list, desired_participants, stored_overrides, contact_speakers) ==
    SpeakerMap(blocks,
               WithMe(_merge_name_sources(quill_title, meeting_title,
                                          JoinNames(db_participants_list),
                                          desired_participants)),
               stored_overrides, contact_speakers, quill_title, meeting_title)

\* lines 989-999: {f"id:{sid}": name} of the ContactMeeting rows of m, a later
\* row replacing an earlier one of the same speaker_id
ContactSpeakers(m) ==
    [k \in {<<"i","d",":">> \o m.contact_sids[i] : i \in 1..Len(m.contact_sids)} |->
        m.contact_names[CHOOSE i \in 1..Len(m.contact_sids) :
                           /\ <<"i","d",":">> \o m.contact_sids[i] = k
                           /\ \A j \in (i + 1)..Len(m.contact_sids) :
                                 <<"i","d",":">> \o m.contact_sids[j] # k]]

\* the mapping saved for the meeting, {} when no override file exists
load_label_override(meeting_id) ==
    IF meeting_id \in DOMAIN labels THEN labels[meeting_id] ELSE <<>>

-----------------------------------------------------------------------------
(* Rendering, validation and the pending files *)

\* what rendering yields for a blob without a block: ("", {}, {})
NoRender ==
    [body_md |-> <<>>, final_map |-> <<>>, id_counts |-> <<>>, blocks |-> <<>>,
     grouped_pairs |-> <<>>]

\* render_transcript_markdown(row) with the overrides load_label_override
\* finds: (body_md, final_map, id_counts), with the blocks read and the
\* grouped_pairs of line 906 that the body and the counts are made from
Rendered(m, parsed, overrides) ==
    IF parsed.isNone \/ parsed.blocks = <<>>
    THEN NoRender
    ELSE [body_md |-> BodyOf(_group_consecutive_blocks(parsed.blocks)),
          final_map |-> _render_transcript_body(parsed.blocks, m.title, m.title,
                                                derive_db_participants(m), <<>>,
                                                overrides, ContactSpeakers(m)),
          id_counts |-> IdCounts(_group_consecutive_blocks(parsed.blocks)),
          blocks |-> parsed.blocks,
          grouped_pairs |-> _group_consecutive_blocks(parsed.blocks)]

render_transcript_markdown(m) ==
    Rendered(m, _parse_audio_blocks(m.audio_transcript), load_label_override(m.id))

\* the ids of the model that have the UUID shape validate_meeting_id asks for
UuidShaped == {ID1, ID2, ID3, ID4}

validate_meeting_id(meeting_id) == meeting_id # NoId /\ meeting_id \in UuidShaped

validate_date_format(date_str) == date_str # "" /\ strptime(date_str) # NULL

\* 2000-01-01 and 2030-01-01 in epoch hours
min_ms == 262968
max_ms == 525960

validate_timestamp_ms(timestamp) ==
    timestamp = NULL \/ (min_ms <= timestamp /\ timestamp <= max_ms)

\* a payload is a pending record whose session_type and participants are
\* those of the frontmatter of its summary_markdown
validate_webhook_payload(payload) ==
    /\ NonEmpty(payload.summary_markdown)
    /\ NonEmpty(payload.meeting_title)
    /\ payload.meeting_date # ""
    /\ validate_date_format(payload.meeting_date)
    /\ (payload.quill_meeting_id # NoId => validate_meeting_id(payload.quill_meeting_id))
    /\ validate_timestamp_ms(payload.quill_start_ms)
    /\ validate_timestamp_ms(payload.quill_end_ms)

infer_session_type_from_title(meeting_title) ==
    LET t == Lower(OrEmpty(meeting_title))
    IN  IF Contains(t, <<"1",":","1">>) \/ Contains(t, <<"1","-","1">>)
           \/ Contains(t, <<"1"," ","o","n"," ","1">>)
        THEN "1-on-1"
        ELSE IF Contains(t, <<"s","y","n","c">>)
                /\ Contains(t, <<"e","x","t","e","r","n","a","l">>)
        THEN "external-sync"
        ELSE IF Contains(t, <<"s","y","n","c">>) THEN "internal-sync"
        ELSE IF Contains(t, <<"n","o","t","e">>) /\ Contains(t, <<"s","e","l","f">>)
        THEN "note-to-self"
        ELSE "default"

\* the pending record save_pending writes for a payload
save_pending(payload) ==
    [meeting_date |-> payload.meeting_date,
     meeting_title |-> payload.meeting_title,
     session_type |-> IF payload.session_type # "" THEN payload.session_type
                      ELSE infer_session_type_from_title(payload.meeting_title),
     participants |-> payload.participants,
     quill_meeting_id |-> payload.quill_meeting_id,
     quill_start_ms |-> payload.quill_start_ms,
     quill_end_ms |-> payload.quill_end_ms,
     quill_title |-> payload.quill_title,
     transcript_snippet |-> payload.transcript_snippet]

\* the file name both "<date> <title> - Summary.md.pending.json" and
\* "<date> <title> - Transcript.md" are built from
BaseOf(p) == <<p.meeting_date, p.meeting_title>>

\* the pending files once save_pending has written p (write_text overwrites)
Saved(files, p) == {q \in files : BaseOf(q) # BaseOf(p)} \cup {p}

\* the transcript files once write_transcript_file has written one for p
Written(files, p, row) ==
    {t \in files : t.base # BaseOf(p)} \cup {[base |-> BaseOf(p), meeting_id |-> row.id]}

\* lines 1946-1953 and 2005-2007: whether an auto flow takes what the
\* selector returned
Confident(p, found) ==
    LET thresh == Get(CONF_THRESHOLDS, SessionOf(p))
        top_score == IF found.debug_rows # <<>> THEN found.debug_rows[1].composite ELSE 0
    IN  /\ found.row # NoRow
        /\ HasAudio(found.row.audio_transcript)
        /\ found.reason \in {"id", "ranked_window", "title", "transcript"}
        /\ (found.reason \in {"id", "title", "transcript"} \/ top_score >= thresh)

\* an unlink that does not wait for the transcript
UnlinkedAlways(files, p, created) == files \ {p}

\* Path.unlink on the pending file of p, run when the transcript was created
Unlinked(files, p, created) == IF created THEN files \ {p} ELSE files

-----------------------------------------------------------------------------
(* The server: requests and what they leave behind *)

MaxMeetings == 2                 \* rows in the Meeting table
MaxPendings == 2                 \* pending files under SUMMARIES_ROOT

\* payloads the webhook receives: summaries of the model and malformed ones
PayloadOf(p) == [summary_markdown |-> <<"#">>] @@ p
Payloads ==
    {PayloadOf(p) : p \in {PdJane, PdBare, PdSnippet, PdSnipLow, PdById}}
    \cup {PayloadOf([PdBare EXCEPT !.quill_meeting_id = "not-a-uuid"]),
          PayloadOf(PdBadDate)}

\* the recordings Quill makes while the server runs
Recordings == {RowJaneOneOnOne, RowJaneNoAudio, RowRoadmap, RowNoEnd}

\* the tables of at most MaxMeetings of the given rows, ids being unique
TablesOf(rows) ==
    {t \in SUBSET rows :
        /\ Cardinality(t) <= MaxMeetings
        /\ \A r, q \in t : r.id = q.id => r = q}

\* the pending records save_pending can have written
Stored == {save_pending(payload) : payload \in {x \in Payloads : validate_webhook_payload(x)}}

\* the states of quill.db: <<table, QUILL_DB_PATH.exists()>>
Worlds == {<<t, TRUE>> : t \in TablesOf(Recordings)} \cup {<<{}, FALSE>>}

\* find_best_candidate(p) in each state of quill.db, computed once
RECURSIVE FoundIn(_, _)
FoundIn(p, worlds) ==
    IF worlds = {} THEN <<>>
    ELSE LET w == CHOOSE x \in worlds : TRUE
         IN  (w :> find_best_candidate(p, w[1], w[2])) @@ FoundIn(p, worlds \ {w})

RECURSIVE FoundFor(_)
FoundFor(ps) ==
    IF ps = {} THEN <<>>
    ELSE LET p == CHOOSE x \in ps : TRUE
         IN  (p :> FoundIn(p, Worlds)) @@ FoundFor(ps \ {p})

Found == FoundFor(Stored)

\* one auto-reconcile attempt on pending record p, found being what
\* find_best_candidate(p) returned: whether write_transcript_file was reached
\* and failed (OSError, ~diskOk), and whether the transcript was created
Attempt(p, found, diskOk) ==
    [pending |-> p,
     raised |-> found.raised,
     row |-> found.row,
     reason |-> found.reason,
     failed |-> ~found.raised /\ Confident(p, found) /\ ~diskOk,
     created |-> ~found.raised /\ Confident(p, found) /\ diskOk]

\* the result slot before find_best_candidate has been called
NotCalled == [raised |-> FALSE, row |-> NoRow, reason |-> "not called", debug_rows |-> <<>>]

\* the trace of a request: its route, its HTTP status, the auto-reconcile
\* attempts it made, the transcript and pending files it wrote and unlinked
Trace(op, status, attempts, wrote, unlinked) ==
    [op |-> op, status |-> status, attempts |-> attempts, wrote |-> wrote,
     unlinked |-> unlinked, rendered |-> NoRender, results |-> <<>>]
Idle == Trace("", 0, {}, {}, {})

\* the transcript files after the created attempts have written theirs
RECURSIVE WrittenAll(_, _)
WrittenAll(files, attempts) ==
    IF attempts = {} THEN files
    ELSE LET a == CHOOSE x \in attempts : TRUE
         IN  WrittenAll(IF a.created THEN Written(files, a.pending, a.row) ELSE files,
                        attempts \ {a})

\* the pending files after the attempts have unlinked theirs
RECURSIVE UnlinkedAll(_, _)
UnlinkedAll(files, attempts) ==
    IF attempts = {} THEN files
    ELSE LET a == CHOOSE x \in attempts : TRUE
         IN  UnlinkedAll(Unlinked(files, a.pending, a.created), attempts \ {a})

\* Quill records a meeting: a row appears in the Meeting table
AddMeeting(m) ==
    /\ Cardinality(db) < MaxMeetings
    /\ \A r \in db : r.id # m.id
    /\ db' = db \cup {m}
    /\ dbExists' = TRUE
    /\ UNCHANGED <<auto, pendings, transcripts, pd, sel, last, labels, call>>

\* lines 1926-1965: the auto-reconcile block of quill_summary on the pending
\* record p it has just saved, a being the attempt on p
AutoReconcile(p, a) ==
    /\ pendings' = Unlinked(Saved(pendings, p), p, a.created)
    /\ transcripts' = WrittenAll(transcripts, {a})
    /\ last' = Trace("quill_summary",
                     IF a.raised \/ a.failed THEN 500 ELSE 200, {a},
                     IF a.created THEN {BaseOf(p)} ELSE {},
                     IF a.created THEN {p} ELSE {})

\* lines 1894-1976, p being the pending record of the valid payload
Accepted(p, diskOk) ==
    IF ~auto
    THEN /\ pendings' = Saved(pendings, p)
         /\ last' = Trace("quill_summary", 200, {}, {}, {})
         /\ UNCHANGED transcripts
    ELSE AutoReconcile(p, Attempt(p, Found[p][<<db, dbExists>>], diskOk))

\* POST /quill_summary
quill_summary(payload, diskOk) ==
    /\ Cardinality(Saved(pendings, save_pending(payload))) <= MaxPendings
    /\ IF ~validate_webhook_payload(payload)
       THEN /\ last' = Trace("quill_summary", 400, {}, {}, {})
            /\ UNCHANGED <<pendings, transcripts>>
       ELSE Accepted(save_pending(payload), diskOk)
    /\ UNCHANGED <<db, dbExists, auto, pd, sel, labels, call>>

\* the orders list_all_pendings (rglob) can enumerate the files in
Enumerations(files) ==
    {ps \in [1..Cardinality(files) -> files] : \A p \in files : \E i \in DOMAIN ps : ps[i] = p}

\* a loop whose body is not in a try: the first exception ends the run
RECURSIVE ResultsUnguarded(_, _, _)
ResultsUnguarded(ps, i, unwritable) ==
    IF i > Len(ps) THEN <<>>
    ELSE LET a == Attempt(ps[i], Found[ps[i]][<<db, dbExists>>], ps[i] \notin unwritable)
         IN  IF a.raised \/ a.failed THEN <<>>
             ELSE <<a>> \o ResultsUnguarded(ps, i + 1, unwritable)

\* lines 1982-2025: results after the loop has run from the i-th of the
\* enumerated files on, the body of each turn being in its own try, whose
\* except appends the error entry and goes on to the next file; unwritable
\* are the files whose transcript or summary the disk refuses to write
RECURSIVE Results(_, _, _)
Results(ps, i, unwritable) ==
    IF i > Len(ps) THEN <<>>
    ELSE <<Attempt(ps[i], Found[ps[i]][<<db, dbExists>>], ps[i] \notin unwritable)>>
            \o Results(ps, i + 1, unwritable)

\* lines 1983-2027: what the loop leaves behind, results being its list
Swept(results) ==
    LET attempts == {results[i] : i \in DOMAIN results}
    IN  /\ pendings' = UnlinkedAll(pendings, attempts)
        /\ transcripts' = WrittenAll(transcripts, attempts)
        /\ last' = [Trace("reconcile_auto", 200, attempts,
                          {BaseOf(a.pending) : a \in {x \in attempts : x.created}},
                          {a.pending : a \in {x \in attempts : x.created}})
                        EXCEPT !.results = results]

\* POST /reconcile/auto
reconcile_auto(unwritable) ==
    /\ \E ps \in Enumerations(pendings) : Swept(Results(ps, 1, unwritable))
    /\ UNCHANGED <<db, dbExists, auto, pd, sel, labels, call>>

\* POST /reconcile/pick with the path of pending record p and a meeting id
reconcile_pick(p, meeting_id, diskOk) ==
    LET row == fetch_by_id(db, meeting_id)
        found == /\ meeting_id # NoId /\ p \in pendings /\ dbExists
                 /\ row # NoRow /\ HasAudio(row.audio_transcript)
        wrote == found /\ strptime(p.meeting_date) # NULL /\ diskOk
    IN  /\ pendings' = Unlinked(pendings, p, wrote)
        /\ transcripts' = IF wrote THEN Written(transcripts, p, row) ELSE transcripts
        /\ last' = Trace("reconcile_pick",
                         IF meeting_id = NoId THEN 400
                         ELSE IF ~found THEN 404
                         ELSE IF ~wrote THEN 500 ELSE 200,
                         {}, IF wrote THEN {BaseOf(p)} ELSE {},
                         IF wrote THEN {p} ELSE {})
        /\ UNCHANGED <<db, dbExists, auto, pd, sel, labels, call>>

\* POST /quill_transcript with a meeting id and the date and title of p
quill_transcript(p, meeting_id, diskOk) ==
    LET row == fetch_by_id(db, meeting_id)
        found == dbExists /\ row # NoRow /\ HasAudio(row.audio_transcript)
        wrote == found /\ strptime(p.meeting_date) # NULL /\ diskOk
    IN  /\ meeting_id # NoId
        /\ transcripts' = IF wrote THEN Written(transcripts, p, row) ELSE transcripts
        /\ last' = Trace("quill_transcript",
                         IF ~found THEN 404 ELSE IF ~wrote THEN 500 ELSE 200,
                         {}, IF wrote THEN {BaseOf(p)} ELSE {}, {})
        /\ UNCHANGED <<db, dbExists, auto, pendings, pd, sel, labels, call>>

MaxLabels == 1                   \* override files under OVERRIDES_DIR

\* the times a request can arrive at: the last of February, the first of March
Clock == {Noon - 24, Noon}

\* the mappings POST /relabel is sent
Mappings ==
    {<<>>,
     (<<"B">> :> <<"B","o","b">>),
     (<<"i","d",":","B">> :> <<"B","o","b">>),
     (<<"i","d",":","B">> :> <<"B","o","b">>) @@ (<<"i","d",":","C">> :> <<"B","o","b">>),
     (<<"i","d",":","A">> :> <<"A","l">>) @@ (<<"i","d",":","C">> :> <<>>),
     (<<"i","d",":","A">> :> <<"A","l">>) @@ (<<"i","d",":","B">> :> <<"Z","e","d">>),
     (<<"i","d",":","B">> :> <<"m","e">>)}

\* the transcript files the rewrite of /relabel scans: those in the folder of
\* the month of now that carry the meeting id in their header
Shelf(row, now) ==
    {t \in transcripts :
        /\ t.meeting_id = row.id
        /\ MonthOf(Calendar[t.base[1]] * 24)
             = MonthOf(now)}

\* lines 1823-1834: the transcript file t is rendered again and written; the
\* mapping was saved unless the disk failed, which save_label_override hides
\* and md.write_text does not
Rewritten(row, overrides, t, diskOk) ==
    last' = [Trace("relabel", IF diskOk THEN 200 ELSE 500, {},
                   IF diskOk THEN {t.base} ELSE {}, {})
               EXCEPT !.rendered = Rendered(row, _parse_audio_blocks(row.audio_transcript),
                                            overrides)]

\* lines 1814-1834, now being the time the folder is named after
Rewrite(row, overrides, diskOk, now) ==
    IF Shelf(row, now) = {}
    THEN last' = Trace("relabel", 200, {}, {}, {})
    ELSE \E t \in Shelf(row, now) : Rewritten(row, overrides, t, diskOk)

\* lines 1793-1812, row being fetch_by_id(meeting_id) and the clock read
\* only for a row without a start
Looked(row, overrides, diskOk) ==
    IF ~dbExists \/ row = NoRow \/ ~HasAudio(row.audio_transcript)
    THEN last' = Trace("relabel", 404, {}, {}, {})
    ELSE IF Truthy(row.start)
    THEN Rewrite(row, overrides, diskOk, row.start)
    ELSE \E now \in Clock : Rewrite(row, overrides, diskOk, now)

\* POST /relabel
relabel(meeting_id, mapping, rewrite, diskOk) ==
    /\ meeting_id = NoId \/ Cardinality(DOMAIN labels \cup {meeting_id}) <= MaxLabels
    /\ IF meeting_id = NoId
       THEN /\ last' = Trace("relabel", 400, {}, {}, {})
            /\ UNCHANGED labels
       ELSE /\ labels' = IF diskOk THEN Put(labels, meeting_id, mapping) ELSE labels
            /\ IF rewrite
               THEN Looked(fetch_by_id(db, meeting_id),
                           IF diskOk THEN mapping ELSE load_label_override(meeting_id),
                           diskOk)
               ELSE last' = Trace("relabel", 200, {}, {}, {})
    /\ UNCHANGED <<db, dbExists, auto, pendings, transcripts, pd, sel, call>>

\* GET /debug/diarization_map
debug_diarization_map(meeting_id) ==
    /\ last' = IF meeting_id = NoId
               THEN Trace("diarization_map", 400, {}, {}, {})
               ELSE IF \/ ~dbExists
                       \/ fetch_by_id(db, meeting_id) = NoRow
                       \/ ~HasAudio(fetch_by_id(db, meeting_id).audio_transcript)
               THEN Trace("diarization_map", 404, {}, {}, {})
               ELSE [Trace("diarization_map", 200, {}, {}, {})
                       EXCEPT !.rendered =
                           render_transcript_markdown(fetch_by_id(db, meeting_id))]
    /\ UNCHANGED <<db, dbExists, auto, pendings, transcripts, pd, sel, labels, call>>

\* no helper has been called on its own
NoCall == [fn |-> "", done |-> FALSE, value |-> NULL]

Init ==
    /\ db = {}
    /\ dbExists = FALSE
    /\ auto \in BOOLEAN
    /\ pendings = {}
    /\ transcripts = {}
    /\ pd = PdBare
    /\ sel = NotCalled
    /\ last = Idle
    /\ labels = <<>>
    /\ call = NoCall

Next ==
    \/ \E m \in Recordings : AddMeeting(m)
    \/ \E payload \in Payloads, diskOk \in BOOLEAN : quill_summary(payload, diskOk)
    \/ \E unwritable \in SUBSET pendings : reconcile_auto(unwritable)
    \/ \E p \in pendings, m \in db, diskOk \in BOOLEAN : reconcile_pick(p, m.id, diskOk)
    \/ \E p \in pendings, m \in db, diskOk \in BOOLEAN : quill_transcript(p, m.id, diskOk)

Spec == Init /\ [][Next]_vars

-----------------------------------------------------------------------------
(* The selector on its own: every pending record against every table *)

\* every table over the catalog
Tables == TablesOf(Meetings)

SelInit ==
    /\ pd \in Pendings
    /\ dbExists \in BOOLEAN
    /\ db \in Tables
    /\ dbExists \/ db = {}
    /\ auto = TRUE
    /\ pendings = {}
    /\ transcripts = {}
    /\ sel = NotCalled
    /\ last = Idle
    /\ labels = <<>>
    /\ call = NoCall

\* find_best_candidate(pd) against the table
Select ==
    /\ sel = NotCalled
    /\ sel' = find_best_candidate(pd, db, dbExists)
    /\ UNCHANGED <<db, dbExists, auto, pendings, transcripts, pd, last, labels, call>>

\* render_transcript_markdown(m) of a row of the table
Render(m) ==
    /\ last = Idle
    /\ last' = [Idle EXCEPT !.op = "render", !.rendered = render_transcript_markdown(m)]
    /\ UNCHANGED <<db, dbExists, auto, pendings, transcripts, pd, sel, labels, call>>

SelNext ==
    \/ Select
    \/ \E m \in db : Render(m)

SelSpec == SelInit /\ [][SelNext]_vars

-----------------------------------------------------------------------------
(* The speaker labels: /relabel and the renderings that follow it *)

\* the transcript file written earlier for the recorded meeting
Filed == [base |-> <<"2024-03-01", <<"P","l","a","n">>>>, meeting_id |-> ID1]

LabelInit ==
    /\ db \in TablesOf(Takes)
    /\ dbExists \in BOOLEAN
    /\ dbExists \/ db = {}
    /\ auto = TRUE
    /\ pendings = {}
    /\ transcripts \in {{}, {Filed}}
    /\ pd = PdBare
    /\ sel = NotCalled
    /\ last = Idle
    /\ labels = <<>>
    /\ call = NoCall

LabelNext ==
    \/ \E meeting_id \in {NoId, ID1, ID2}, mapping \in Mappings,
          rewrite \in BOOLEAN, diskOk \in BOOLEAN :
          relabel(meeting_id, mapping, rewrite, diskOk)
    \/ \E meeting_id \in {NoId, ID1, ID2} : debug_diarization_map(meeting_id)

LabelSpec == LabelInit /\ [][LabelNext]_vars

-----------------------------------------------------------------------------
(* The name and title helpers, called on their own *)

\* the names the helpers are called on: blank ones, a self-alias, the
\* canonical name, a name with an affiliation, one without a letter
CallNames ==
    {<<>>, <<" ">>, <<"J","a","n","e">>, <<"J","A","N","E"," ","D","O","E">>, <<"m","e">>, <<"Y","o","u","r"," ","N","a","m","e">>,
     <<"B","o","b"," ","(","A","c","m","e",")">>, <<"4","2">>}

\* the lists of at most n of them
NameLists(n) == UNION {[1..k -> CallNames] : k \in 0..n}

MaxNames == 2                    \* names in a list of participants

\* the titles: an empty one, ones that normalization empties, ones it changes
CallTitles ==
    {<<>>, <<"!","!","!">>, <<"?">>, <<" ","-"," ">>, <<"P","l","a","n">>, <<"p","l","a","n","!">>, <<"J","a","n","e"," ","1",":","1">>,
     <<"T","e","a","m"," ","s","y","n","c",":"," ","Q","3">>, <<"2","0","2","4">>, <<"R","&","D">>}

Overlaps ==
    [fn : {"participant_overlap_fuzzy"}, desired : NameLists(MaxNames),
     db_parts : NameLists(MaxNames), done : {FALSE}, value : {NULL}]

Similarities ==
    [fn : {"title_similarity"}, a : CallTitles, b : CallTitles, done : {FALSE}, value : {NULL}]

\* the rows compute_score is called on: with both bounds, with one, with none
CallRows ==
    {[NoRow EXCEPT !.id = ID1, !.title = <<"P","l","a","n">>, !.start = s, !.end = e] :
        s \in {NULL, 0, Noon - 6, Noon + 30, Noon + 80},
        e \in {NULL, Noon - 4, Noon + 32, Noon + 90}}

\* the calls of compute_score for a record of 2024-03-01, the center being
\* noon of the day or taken from the record's own start
Scorings ==
    [fn : {"compute_score"}, session_type : {"default"}, meeting_date : {"2024-03-01"},
     needle_title : {<<"P","l","a","n">>}, desired_participants : {<<>>},
     center_ms : {Noon, Noon + 18},
     lo_ms : {local_day_bounds_ms("2024-03-01").lo},
     hi_ms : {local_day_bounds_ms("2024-03-01").hi},
     m : CallRows, done : {FALSE}, value : {NULL}]

\* the participants columns and the desired lists compute_score is called on
CallRosters ==
    {<<>>, <<"B","o","b">>, <<"B","o","b",","," ","A","l">>, <<"B","O","B",","," ","a","l">>, <<"B","o","b",","," ","A","l",","," ","C","y">>,
     <<"B","o","b",","," ","A","l",","," ","C","y",","," ","D","i",","," ","E","d",","," ","F","l","o">>}
CallDesired ==
    {<<<<"b","o","b">>>>, <<<<"B","o","b">>, <<"A","l">>>>, <<<<"B","o","b">>, <<"b","o","b">>>>, <<<<"B","o","b">>, <<"Z","e","d">>, <<"Y","a","n">>>>,
     <<<<"Z","e","d">>, <<"Y","a","n">>, <<"X","i">>, <<"W","u">>>>, <<<<" ">>>>}

\* the calls of compute_score with desired participants, on a row at noon
Rosterings ==
    [fn : {"compute_score"}, session_type : {"default", "1-on-1"},
     meeting_date : {"2024-03-01"},
     needle_title : {<<"P","l","a","n">>}, desired_participants : CallDesired,
     center_ms : {Noon},
     lo_ms : {local_day_bounds_ms("2024-03-01").lo},
     hi_ms : {local_day_bounds_ms("2024-03-01").hi},
     m : {[NoRow EXCEPT !.id = ID1, !.title = <<"P","l","a","n">>, !.participants = r,
                        !.start = Noon - 1, !.end = Noon + 1] : r \in CallRosters},
     done : {FALSE}, value : {NULL}]

HelperInit ==
    /\ db = {}
    /\ dbExists = TRUE
    /\ auto = FALSE
    /\ pendings = {}
    /\ transcripts = {}
    /\ pd = PdBare
    /\ sel = NotCalled
    /\ last = Idle
    /\ labels = <<>>
    /\ call \in Overlaps \cup Similarities \cup Scorings \cup Rosterings

Overlap ==
    /\ call.fn = "participant_overlap_fuzzy"
    /\ ~call.done
    /\ call' = [call EXCEPT !.done = TRUE, !.value = participant_overlap_fuzzy(call.desired, call.db_parts)]
    /\ UNCHANGED <<db, dbExists, auto, pendings, transcripts, pd, sel, last, labels>>

Similarity ==
    /\ call.fn = "title_similarity"
    /\ ~call.done
    /\ call' = [call EXCEPT !.done = TRUE, !.value = title_similarity(call.a, call.b)]
    /\ UNCHANGED <<db, dbExists, auto, pendings, transcripts, pd, sel, last, labels>>

Scoring ==
    /\ call.fn = "compute_score"
    /\ ~call.done
    /\ call' = [call EXCEPT !.done = TRUE, !.value = compute_score(call.session_type, call.meeting_date, call.needle_title, call.desired_participants, call.center_ms, call.lo_ms, call.hi_ms, call.m, NoText)]
    /\ UNCHANGED <<db, dbExists, auto, pendings, transcripts, pd, sel, last, labels>>

HelperNext == Overlap \/ Similarity \/ Scoring

HelperSpec == HelperInit /\ [][HelperNext]_vars

-----------------------------------------------------------------------------
(* Properties of the selector, checked under SelSpec *)

\* find_best_candidate has returned or raised
Called == sel # NotCalled

\* it returned, and it had ranked at least one candidate
Ranking == Called /\ ~sel.raised /\ sel.debug_rows # <<>>

\* the diagnostics of the top-ranked candidate
Top == sel.debug_rows[1]

\* the rows of a non-deleted meeting with transcript content
Candidates == {m \in db : m.deleteDate = NULL /\ HasAudio(m.audio_transcript)}

\* the pending record without its explicit candidate id
WithoutId == [pd EXCEPT !.quill_meeting_id = NoId]

\* C1: for a pending record with an explicit candidate id, when the store
\* holds a candidate with that id that has transcript content, the selector
\* returns that candidate with reason "id", whatever else is in the window.
C1_IdRuleFirst ==
    (/\ Called
     /\ dbExists
     /\ pd.quill_meeting_id # NoId
     /\ \E m \in Candidates : m.id = pd.quill_meeting_id)
    => /\ ~sel.raised
       /\ sel.reason = "id"
       /\ sel.row \in Candidates
       /\ sel.row.id = pd.quill_meeting_id

\* the id rule won over another candidate, the one the same record would
\* have been matched to without its id
C1_Witness ==
    /\ Called
    /\ sel.reason = "id"
    /\ find_best_candidate(WithoutId, db, dbExists).row \in Candidates \ {sel.row}

\* the ranked_window condition, as lines 1665-1691 evaluate it: the exact-set
\* alternative needs a non-empty desired list
WindowCondition(top, session_type) ==
    \/ /\ top.score >= Get(CONF_THRESHOLDS, session_type) * ONE
       /\ \/ top.overlap >= (IF session_type \in {"internal-sync", "external-sync"}
                             THEN 600 ELSE 500)
          \/ /\ top.desired_parts # <<>>
             /\ LowerSet(top.desired_parts) = LowerSet(top.db_parts)
    \/ (top.overlap >= 900 /\ top.transcript_score >= 100)

\* the ranked_window condition with the participant sets merely equal
WindowConditionStated(top, session_type) ==
    \/ /\ top.score >= Get(CONF_THRESHOLDS, session_type) * ONE
       /\ \/ top.overlap >= (IF session_type \in {"internal-sync", "external-sync"}
                             THEN 600 ELSE 500)
          \/ LowerSet(top.desired_parts) = LowerSet(top.db_parts)
    \/ (top.overlap >= 900 /\ top.transcript_score >= 100)

\* C2: the acceptance rules are tried in a fixed order and the first that
\* applies wins: the top-ranked candidate is accepted with reason "transcript"
\* whenever its transcript_score is >= 0.15; "ranked_window" is returned only
\* if the transcript rule did not apply, "ranked_overlap" only if neither of
\* those applied, and "title" (or no match) only if none of them accepted.
C2_FirstApplicableWins ==
    /\ Ranking =>
         /\ sel.reason \in {"transcript", "ranked_window", "ranked_overlap", "title", ""}
         /\ Top.transcript_score >= 150
              => (sel.reason = "transcript" /\ sel.row.id = Top.id)
         /\ sel.reason = "ranked_window"
              => (Top.transcript_score < 150 /\ sel.row.id = Top.id)
         /\ sel.reason = "ranked_overlap"
              => /\ Top.transcript_score < 150
                 /\ ~WindowCondition(Top, SessionOf(pd))
                 /\ sel.row.id = Top.id
         /\ sel.reason \in {"title", ""}
              => /\ Top.transcript_score < 150
                 /\ ~WindowCondition(Top, SessionOf(pd))
                 /\ ~OverlapRule(SessionOf(pd), Top)
    /\ (Called /\ ~sel.raised /\ sel.debug_rows = <<>>) => sel.reason \in {"id", "title", ""}

\* a top candidate that the ranked_window rule would take as well is returned
\* with reason "transcript"
C2_Witness ==
    /\ Ranking
    /\ sel.reason = "transcript"
    /\ WindowCondition(Top, SessionOf(pd))
    /\ OverlapRule(SessionOf(pd), Top)

\* C3 (as the code has it): when the id and transcript rules do not apply, the
\* top-ranked candidate is accepted with reason "ranked_window" exactly when
\* (composite >= the session type's threshold AND (overlap >= 0.60 for the sync
\* types, else >= 0.50, OR the desired participants are non-empty and equal the
\* candidate's as sets)) OR (overlap >= 0.9 AND transcript_score >= 0.1).
C3_RankedWindow ==
    (Ranking /\ Top.transcript_score < 150)
    => /\ sel.reason = "ranked_window" <=> WindowCondition(Top, SessionOf(pd))
       /\ sel.reason = "ranked_window" => sel.row.id = Top.id

\* C3 as stated: the participant sets being equal is enough, empty or not.
C3_AsStated ==
    (Ranking /\ Top.transcript_score < 150)
    => (sel.reason = "ranked_window" <=> WindowConditionStated(Top, SessionOf(pd)))

\* ranked_window by the exact-set alternative alone, and by the
\* overlap-and-transcript alternative alone
C3_Witness ==
    /\ Ranking
    /\ sel.reason = "ranked_window"
    /\ \/ /\ Top.score < Get(CONF_THRESHOLDS, SessionOf(pd)) * ONE
          /\ Top.overlap >= 900
          /\ Top.transcript_score >= 100
       \/ /\ Top.score >= Get(CONF_THRESHOLDS, SessionOf(pd)) * ONE
          /\ Top.transcript_score = 0

\* the ranked_overlap condition as stated, the composite read as the score
\* the ranking used or as the rounded composite of the diagnostics
OverlapStatedOn(composite, unit, top, session_type) ==
    \/ /\ top.overlap >= 500
       /\ top.title_score >= 200
       /\ composite >= (Get(CONF_THRESHOLDS, session_type) - 50) * unit
    \/ top.transcript_score >= 300
    \/ top.title_score >= 250

\* C4 as stated: when rules 1-5 do not apply, the top-ranked candidate is
\* accepted with reason "ranked_overlap" exactly when (overlap >= 0.50 AND
\* title_score >= 0.20 AND composite >= threshold - 0.05) OR transcript_score
\* >= 0.3 OR title_score >= 0.25; a state violates it only if it does so under
\* both readings of the composite.
C4_AsStated ==
    (Ranking /\ sel.reason \notin {"transcript", "ranked_window"})
    => /\ (/\ OverlapStatedOn(Top.score, ONE, Top, SessionOf(pd))
           /\ OverlapStatedOn(Top.composite, 1, Top, SessionOf(pd)))
          => sel.reason = "ranked_overlap"
       /\ sel.reason = "ranked_overlap"
          => \/ OverlapStatedOn(Top.score, ONE, Top, SessionOf(pd))
             \/ OverlapStatedOn(Top.composite, 1, Top, SessionOf(pd))

\* the rows the title scan looks at
TitleCandidates ==
    {m \in Candidates :
        /\ local_day_bounds_ms(pd.meeting_date).lo <= m.start
        /\ m.start <= local_day_bounds_ms(pd.meeting_date).hi}

TitleOf(m) == title_similarity(OrEmpty(LookTitle(pd)), OrEmpty(m.title))

BestTitle == SetMax({TitleOf(m) : m \in TitleCandidates})

\* C5: when rules 1-6 accept no scored candidate, the selector returns the
\* candidate with transcript content and a start inside the day window whose
\* title similarity is highest, with reason "title", if and only if that
\* similarity is >= 0.70; otherwise it returns no candidate.
C5_TitleScan ==
    (Called /\ ~sel.raised
        /\ sel.reason \notin {"id", "transcript", "ranked_window", "ranked_overlap"})
    => IF TitleCandidates # {} /\ BestTitle >= 7 * TENTH
       THEN /\ sel.reason = "title"
            /\ sel.row \in TitleCandidates
            /\ TitleOf(sel.row) = BestTitle
       ELSE sel.reason = "" /\ sel.row = NoRow

\* the scan chose among several rows, one of them without a transcript
C5_Witness ==
    /\ Called
    /\ sel.reason = "title"
    /\ \E m \in db \ Candidates : TitleOf(m) >= 7 * TENTH
    /\ Cardinality(db) = 2

C9_AsStated ==
    /\ (Called /\ strptime(pd.meeting_date) = NULL) => ~sel.raised
    /\ \A m \in db :
         _parse_audio_blocks(m.audio_transcript).isNone
         => /\ render_transcript_markdown(m).body_md = <<>>
            /\ render_transcript_markdown(m).final_map = <<>>
            /\ render_transcript_markdown(m).id_counts = <<>>
            /\ transcript_score_of(<<"h","e","l","l","o">>, m.audio_transcript) = 0

\* the candidates the selector fetched for scoring
Fetched ==
    {m \in Candidates :
        \E i \in 1..Len(fetch_overlap_window(db, local_day_bounds_ms(pd.meeting_date).lo,
                                             local_day_bounds_ms(pd.meeting_date).hi)) :
            fetch_overlap_window(db, local_day_bounds_ms(pd.meeting_date).lo,
                                 local_day_bounds_ms(pd.meeting_date).hi)[i] = m}

\* C10 as stated: a candidate with transcript content is left out of the
\* scoring if and only if desired participants exist, no transcript snippet is
\* supplied, at least 2 participants are desired and no desired name shares a
\* normalized token with a candidate name.
C10_AsStated ==
    (Called /\ ~sel.raised /\ dbExists /\ sel.reason # "id")
    => \A m \in Fetched :
         (\A i \in 1..Len(sel.debug_rows) : sel.debug_rows[i].id # m.id)
         <=> /\ pd.participants # <<>>
             /\ ~NonEmpty(pd.transcript_snippet)
             /\ Cardinality(LowerSet(pd.participants)) >= 2
             /\ participant_overlap_fuzzy(pd.participants, derive_db_participants(m)) = 0

-----------------------------------------------------------------------------
(* Properties of the server, checked under Spec *)

\* C6 as stated: in the auto-reconcile flows, whenever the selector returns a
\* candidate for a pending record, with any reason, the transcript is written
\* and the pending record is deleted in that same request (a failing disk
\* apart).
C6_AsStated ==
    \A a \in last.attempts :
        (~a.raised /\ a.row # NoRow /\ ~a.failed)
        => /\ a.created
           /\ BaseOf(a.pending) \in last.wrote
           /\ a.pending \in last.unlinked

\* the pending files and the transcript files, by the name they are built from
PendingFiles(files) == {BaseOf(p) : p \in files}
TranscriptFiles(files) == {t.base : t \in files}

\* what a request leaves behind
C7Step ==
    /\ \A a \in last'.attempts :
         a.row = NoRow
         => /\ a.pending \in pendings'
            /\ BaseOf(a.pending) \notin last'.wrote
            /\ {t \in transcripts' : t.base = BaseOf(a.pending)}
                 = {t \in transcripts : t.base = BaseOf(a.pending)}
    /\ \A f \in PendingFiles(pendings) \ PendingFiles(pendings') :
         /\ last' # last
         /\ f \in last'.wrote
         /\ f \in TranscriptFiles(transcripts')

\* C7: when the selector accepts no candidate for a pending record, the
\* record stays stored and no transcript file is written for it; in every
\* flow a pending file is deleted only in a request that has written the
\* transcript file for it.
C7_PendingKept == [][C7Step]_vars

\* one sweep consumed one pending record and kept another, for which the
\* selector accepted nothing
C7_Witness ==
    /\ last.op = "reconcile_auto"
    /\ \E a \in last.attempts : a.row = NoRow /\ a.pending \in pendings
    /\ \E a \in last.attempts : a.created /\ a.pending \notin pendings

-----------------------------------------------------------------------------
(* Properties of the scoring engine, checked under SelSpec *)

\* the day bounds and the center find_best_candidate scores with
Bounds == local_day_bounds_ms(pd.meeting_date)
Center == CenterOf(pd, Bounds.lo, Bounds.hi)

\* the candidate a diagnostics row is about
RowOf(d) == CHOOSE m \in Candidates : m.id = d.id

\* the weights of the weighted sum as stated, in units of 1/10000: the
\* session type's weights, or with a snippet overlap x0.2, title x0.2,
\* time x0.5 and 0.60 for the transcript score
StatedWeights(session_type, has_snippet) ==
    LET w == Get(WEIGHT_TABLE, session_type)
    IN  IF has_snippet
        THEN [overlap |-> 2 * w.overlap, title |-> 2 * w.title,
              time |-> 5 * w.time, transcript |-> 6000]
        ELSE [overlap |-> 10 * w.overlap, title |-> 10 * w.title,
              time |-> 10 * w.time, transcript |-> 0]

\* the stated weights are whole thousandths
WholeWeights(sw) ==
    sw.overlap % 10 = 0 /\ sw.title % 10 = 0 /\ sw.time % 10 = 0

\* the composite as stated, from the unrounded signals of row m and the
\* bonus and penalty terms of its diagnostics d
StatedComposite(d, m, sw) ==
      (sw.overlap \div 10) * participant_overlap_fuzzy(d.desired_parts, d.db_parts)
    + (sw.title \div 10) * title_similarity(OrEmpty(LookTitle(pd)), OrEmpty(m.title))
    + (sw.time \div 10) * time_score_of(Center, Bounds.lo, Bounds.hi, m)
    + (sw.transcript \div 10)
        * transcript_score_of(pd.transcript_snippet, m.audio_transcript)
    + ONE * (d.same_day_bonus + d.set_bonus - d.set_penalty - d.group_size_penalty)

\* C11: for every session type and candidate the composite equals the
\* weighted sum + same_day_bonus + set_bonus - set_penalty -
\* group_size_penalty; without a transcript snippet the weighted sum uses the
\* session type's overlap, title and time weights, which sum to 1.0, and
\* with one it uses overlap weight x0.2, title weight x0.2, time weight x0.5
\* plus 0.60 x transcript_score.
C11_Composite ==
    /\ \A s \in DOMAIN WEIGHT_TABLE :
         WEIGHT_TABLE[s].overlap + WEIGHT_TABLE[s].title + WEIGHT_TABLE[s].time = 1000
    /\ Ranking =>
         \A i \in DOMAIN sel.debug_rows :
            /\ WholeWeights(StatedWeights(SessionOf(pd), NonEmpty(pd.transcript_snippet)))
            /\ sel.debug_rows[i].score
                 = StatedComposite(sel.debug_rows[i], RowOf(sel.debug_rows[i]),
                                   StatedWeights(SessionOf(pd),
                                                 NonEmpty(pd.transcript_snippet)))

\* a candidate scored with a snippet that its transcript matches, with the
\* same-day bonus and a set term in its composite
C11_Witness ==
    /\ Ranking
    /\ NonEmpty(pd.transcript_snippet)
    /\ Top.transcript_score > 0
    /\ Top.overlap > 0
    /\ Top.same_day_bonus > 0
    /\ Top.set_bonus + Top.set_penalty > 0

-----------------------------------------------------------------------------
(* Properties of the speaker attribution, checked under LabelSpec *)

\* the last request rendered a recording, by re-reading it for
\* /debug/diarization_map or for the rewrite of /relabel
Rendering ==
    /\ last.op \in {"relabel", "diarization_map"}
    /\ last.rendered.blocks # <<>>

\* the SpeakerMap the rendering returned, the blocks it was built from and
\* the recording they belong to
FinalMap == last.rendered.final_map
Heard == last.rendered.blocks
Recorded == CHOOSE m \in db : _parse_audio_blocks(m.audio_transcript).blocks = Heard

\* the key of the 1-based block i
KeyAt(i) == _speaker_key(Heard[i], i - 1)

\* the keys bound to the canonical self-name
SelfKeys == {k \in DOMAIN FinalMap : FinalMap[k] = ME_FULLNAME}

\* C12 as stated: in every SpeakerMap returned by a rendering at most one
\* speaker key is bound to the canonical self-name, and that key is the
\* anchor key; no other key receives the self-name through source-tag
\* stamping, explicit labels, overrides, canonicalization or hints.
C12_AsStated ==
    Rendering =>
        /\ Cardinality(SelfKeys) <= 1
        /\ \A k \in SelfKeys :
              /\ _pick_me_speaker_id(Heard) # NoText
              /\ k = <<"i","d",":">> \o _pick_me_speaker_id(Heard)

\* C13 as stated: the SpeakerMap is injective on names other than the
\* canonical self-name: no two distinct speaker keys are mapped to the same
\* display name, generated "Speaker N" placeholders included.
C13_AsStated ==
    Rendering =>
        \A k1, k2 \in DOMAIN FinalMap :
            (k1 # k2 /\ FinalMap[k1] = FinalMap[k2]) => FinalMap[k1] = ME_FULLNAME

\* the recording has no explicit label, no saved override, no ContactMeeting
\* hint and no inline name prefix
Plain ==
    /\ \A i \in 1..Len(Heard) :
          /\ _extract_explicit_label(Heard[i]) = NoText
          /\ InlineName(Strip(OrEmpty(Heard[i].text))) = NoText
    /\ load_label_override(Recorded.id) = <<>>
    /\ DOMAIN ContactSpeakers(Recorded) = {}

\* the preference list of the rendering
PrefNames ==
    WithMe(_merge_name_sources(Recorded.title, Recorded.title,
                               JoinNames(derive_db_participants(Recorded)), <<>>))

\* the speaker ids whose blocks most often carry a local source tag
MostLocal ==
    {Heard[i].speaker_id : i \in {j \in LocalTagged(Heard) :
        \A h \in LocalTagged(Heard) :
            CountOf(Heard, Heard[j].speaker_id) >= CountOf(Heard, Heard[h].speaker_id)}}

\* the keys other than the anchor key, in order of first appearance
RECURSIVE OtherKeys(_, _, _)
OtherKeys(i, anchor, seen) ==
    IF i > Len(Heard) THEN <<>>
    ELSE IF KeyAt(i) = anchor \/ KeyAt(i) \in seen
    THEN OtherKeys(i + 1, anchor, seen)
    ELSE <<KeyAt(i)>> \o OtherKeys(i + 1, anchor, seen \cup {KeyAt(i)})

\* the map as stated for the anchor key anchor (NoText: no block carries a
\* local tag): the anchor is the self, the j-th other key takes the j-th
\* non-self preference name, or "Speaker N" counted from 1 past the list
StatedMap(anchor, others, names) ==
    [k \in (IF anchor = NoText THEN {} ELSE {anchor})
              \cup {others[j] : j \in 1..Len(others)} |->
        IF k = anchor THEN ME_FULLNAME
        ELSE LET j == CHOOSE x \in 1..Len(others) : others[x] = k
             IN  IF j <= Len(names) THEN names[j]
                 ELSE <<"S","p","e","a","k","e","r"," ">> \o Decimal(j - Len(names))]

\* C14 as stated: for blocks without explicit labels, overrides, hints or
\* inline name prefixes, the key "id:<sid>" of the speaker_id whose blocks
\* most often carry a local source tag (mic/local/local-user) maps to the
\* canonical self-name, and every other key, in order of first appearance,
\* maps to the next unused non-self name of the preference list, or to a
\* "Speaker N" placeholder (from "Speaker 1") once the list is exhausted or
\* empty.
C14_AsStated ==
    (Rendering /\ Plain) =>
        IF MostLocal = {}
        THEN FinalMap = StatedMap(NoText, OtherKeys(1, NoText, {}), NonMe(PrefNames))
        ELSE \E sid \in MostLocal :
                FinalMap = StatedMap(<<"i","d",":">> \o sid,
                                     OtherKeys(1, <<"i","d",":">> \o sid, {}),
                                     NonMe(PrefNames))

\* the keys of the blocks of the rendered recording
HeardKeys == {KeyAt(i) : i \in 1..Len(Heard)}

\* C18 as stated: after POST /relabel has saved a mapping
\* {"<speaker_id>": "Correct Name"} for a meeting, every later rendering of
\* that meeting, the rewrite of rewrite=true included, maps that speaker's
\* key to the saved name in the returned SpeakerMap (an entry of the mapping
\* is read both as a speaker_id and as a speaker key).
C18_AsStated ==
    (Rendering /\ last.status = 200 /\ Recorded.id \in DOMAIN labels) =>
        \A k \in DOMAIN labels[Recorded.id] :
            labels[Recorded.id][k] # <<>> =>
                /\ (<<"i","d",":">> \o k) \in HeardKeys
                      => FinalMap[<<"i","d",":">> \o k] = labels[Recorded.id][k]
                /\ k \in HeardKeys => FinalMap[k] = labels[Recorded.id][k]

\* the leading transcript text of a candidate, the text of its first
\* HEAD_BLOCKS blocks, with the speaker labels stripped
LeadingText(m) ==
    CleanLabels(CollapseSpaces(Strip(Join(
        BlockTexts(_parse_audio_blocks(m.audio_transcript).blocks, HEAD_BLOCKS), <<" ">>))))

\* the snippet of the pending record equals it exactly, once its own labels
\* are stripped
ExactLead(m) ==
    /\ NonEmpty(pd.transcript_snippet)
    /\ _parse_audio_blocks(m.audio_transcript).blocks # <<>>
    /\ CleanLabels(QuoteFix(CollapseSpaces(Strip(pd.transcript_snippet)))) = LeadingText(m)
    /\ LeadingText(m) # <<>>

\* C15 as stated: when the transcript_snippet of a pending record (without an
\* id match) exactly equals the leading transcript text of a candidate after
\* label-stripping, that candidate's transcript_score is >= 0.9 and the
\* selector returns that candidate with reason "transcript", whatever other
\* candidates are in the window (the leading text of no other fetched
\* candidate being equal to the snippet).
C15_AsStated ==
    (Called /\ ~sel.raised /\ dbExists /\ sel.reason # "id")
    => \A m \in Fetched :
         (ExactLead(m) /\ \A n \in Fetched \ {m} : ~ExactLead(n))
         => /\ transcript_score_of(pd.transcript_snippet, m.audio_transcript) >= 9 * TENTH
            /\ sel.reason = "transcript"
            /\ sel.row = m

-----------------------------------------------------------------------------
(* Properties of the name and title helpers, checked under HelperSpec *)

\* the helper fn has returned
Returns(fn) == call.fn = fn /\ call.done

\* the names of a list that are not blank
NonBlank(names) == {i \in 1..Len(names) : Strip(names[i]) # <<>>}

\* the tokens of a name
Tokens(n) == tokenize_name(normalize_person_token(n))

\* a name with a self-alias replaced by the canonical name
Expanded(n) == IF Lower(Strip(n)) \in alias_set THEN MY_CANONICAL_NAME ELSE n

\* the name n shares a token with a name of the list
TokenMatch(n, db_parts) ==
    \E j \in 1..Len(db_parts) : Tokens(n) \cap Tokens(db_parts[j]) # {}

\* C16 (as the code has it): participant_overlap_fuzzy(D, C) lies in [0, 1];
\* it is 0.0 when D is empty or holds only blank names, and it is 1.0 when D
\* holds a non-blank name and every non-blank name of D, a self-alias read as
\* the canonical name, shares a token with a name of C.
C16_Overlap ==
    Returns("participant_overlap_fuzzy") =>
        /\ 0 <= call.value /\ call.value <= ONE
        /\ IF NonBlank(call.desired) = {}
           THEN call.value = 0
           ELSE (\A i \in NonBlank(call.desired) :
                     TokenMatch(Expanded(call.desired[i]), call.db_parts))
                => call.value = ONE

\* C16 as stated: the overlap lies in [0, 1] and equals 1.0 when every name
\* in D has an exact-token match in C, D empty or holding only blank names
\* included.
C16_AsStated ==
    Returns("participant_overlap_fuzzy") =>
        /\ 0 <= call.value /\ call.value <= ONE
        /\ (\/ NonBlank(call.desired) = {}
            \/ \A i \in 1..Len(call.desired) : TokenMatch(call.desired[i], call.db_parts))
           => call.value = ONE

\* the overlap is 1.0 for a list with a blank name and a name that matches
\* by one token of a longer name
C16_Witness ==
    /\ Returns("participant_overlap_fuzzy")
    /\ call.value = ONE
    /\ NonBlank(call.desired) # {}
    /\ NonBlank(call.desired) # 1..Len(call.desired)
    /\ \A i \in NonBlank(call.desired) :
          /\ TokenMatch(Expanded(call.desired[i]), call.db_parts)
          /\ \A j \in 1..Len(call.db_parts) : Tokens(call.desired[i]) # Tokens(call.db_parts[j])

\* the title holds a character that normalization keeps
Kept(t) == \E i \in 1..Len(t) : t[i] \in (Letters \cup Digits)

\* C17 (as the code has it): title_similarity(t, t) is 1.0 for every title t
\* that holds a letter or a digit, and 0.0 for a title that normalization
\* empties, such as one of punctuation only.
C17_Reflexive ==
    (Returns("title_similarity") /\ call.a = call.b) =>
        call.value = (IF Kept(call.a) THEN ONE ELSE 0)

\* C17 as stated: title_similarity(t, t) == 1.0 for every non-empty title t,
\* titles of punctuation only included.
C17_AsStated ==
    (Returns("title_similarity") /\ call.a = call.b /\ call.a # <<>>) =>
        call.value = ONE

\* a title compared with itself scored 1.0 although normalization changes it
C17_Witness ==
    /\ Returns("title_similarity")
    /\ call.a = call.b
    /\ call.value = ONE
    /\ normalize_title(call.a) # Lower(call.a)

\* the candidate midpoint as stated: the average of start and end, else the
\* bound that exists, else the window center
StatedMidpoint(m, center_ms) ==
    IF m.start # NULL /\ m.end # NULL THEN (m.start + m.end) \div 2
    ELSE IF m.start # NULL THEN m.start
    ELSE IF m.end # NULL THEN m.end
    ELSE center_ms

\* max(0, 1 - |midpoint - center| / span)
StatedTimeScore(mid, center_ms, span) ==
    IF Abs(mid - center_ms) >= span THEN 0
    ELSE (ONE * (span - Abs(mid - center_ms))) \div span

\* C19 as stated: in compute_score the candidate midpoint is the average of
\* start and end when both are present, otherwise whichever single bound
\* exists (start alone, or end alone), otherwise the window center, and
\* time_score = max(0, 1 - |midpoint - window_center| / window_span), 1.0 for a
\* midpoint at the center.
C19_AsStated ==
    Returns("compute_score") =>
        call.value.time_score
            = Round3(StatedTimeScore(StatedMidpoint(call.m, call.center_ms), call.center_ms,
                                     call.hi_ms - call.lo_ms),
                     PER_MILLI)

-----------------------------------------------------------------------------
(* Properties of the candidate window, checked under SelSpec *)

\* C20 as stated: the candidate window the selector queries has a total
\* width equal to the configured window width (36 hours by default):
\* hi_ms - lo_ms equals window_hours hours, so that every candidate it ranks
\* lies within window_hours / 2 of noon of the meeting date.
C20_AsStated ==
    (Called /\ ~sel.raised /\ dbExists /\ sel.reason # "id") =>
        /\ Bounds.hi - Bounds.lo = WINDOW_HOURS
        /\ \A i \in 1..Len(sel.debug_rows) :
              /\ RowOf(sel.debug_rows[i]).end >= Bounds.lo + WINDOW_HOURS \div 2
              /\ RowOf(sel.debug_rows[i]).start <= Bounds.hi - WINDOW_HOURS \div 2

\* the pending record carries an explicit start or end of the recording
Explicit == pd.quill_start_ms # NULL \/ pd.quill_end_ms # NULL

\* the meeting m was running at the time t
Spans(m, t) == m.start # NULL /\ m.end # NULL /\ m.start <= t /\ t <= m.end

\* C21 as stated: when the pending record provides explicit
\* quill_start_ms/quill_end_ms, the window used to fetch candidates is
\* centered on the midpoint of the provided start/end, not on the meeting
\* date, so a candidate overlapping that explicit midpoint is always among
\* the fetched candidates.
C21_AsStated ==
    (Called /\ ~sel.raised /\ dbExists /\ sel.reason # "id" /\ Explicit) =>
        /\ (Bounds.lo + Bounds.hi) \div 2 = Center
        /\ \A m \in Candidates : Spans(m, Center) => m \in Fetched

-----------------------------------------------------------------------------
(* Properties of the set logic of the score, checked under HelperSpec *)

\* the desired set D and the candidate set C of a returned score, compared
\* case-insensitively
DesiredSet == LowerSet(call.value.desired_parts)
CandidateSet == LowerSet(call.value.db_parts)

\* compute_score has returned for a non-empty desired list
Rostered == Returns("compute_score") /\ call.value.desired_parts # <<>>

\* the adjustments as stated, in thousandths
ExactBonus == IF DesiredSet = CandidateSet THEN 250 ELSE 0
SupersetPenalty ==
    IF DesiredSet \subseteq CandidateSet /\ DesiredSet # CandidateSet
    THEN Min2(120, 40 * Cardinality(CandidateSet \ DesiredSet))
    ELSE 0
MissingPenalty ==
    IF DesiredSet \ CandidateSet # {}
    THEN Min2(350, 180 + 100 * (Cardinality(DesiredSet \ CandidateSet) - 1))
    ELSE 0
PairBonus ==
    IF /\ call.session_type = "1-on-1"
       /\ DesiredSet = CandidateSet
       /\ Cardinality(CandidateSet) = 2
    THEN 120 ELSE 0
CrowdPenalty ==
    IF call.session_type = "1-on-1" /\ Cardinality(CandidateSet) > 2 THEN 100 ELSE 0

\* C22: with non-empty desired participants, a candidate's set_bonus is
\* 0.25 when the desired set equals the candidate set (case-insensitively)
\* plus 0.12 for an exact 2-person match of a "1-on-1"; its set_penalty is
\* min(0.12, 0.04 x extras) when the candidate set is a strict superset,
\* min(0.35, 0.18 + 0.10 x (missing - 1)) when a desired member is missing,
\* plus 0.10 for a "1-on-1" candidate with more than 2 participants; the
\* superset penalty and the missing penalty never both apply.
C22_SetLogic ==
    Rostered =>
        /\ call.value.set_bonus = ExactBonus + PairBonus
        /\ call.value.set_penalty = SupersetPenalty + MissingPenalty + CrowdPenalty
        /\ SupersetPenalty = 0 \/ MissingPenalty = 0

\* a "1-on-1" candidate with five participants more than the one desired:
\* the superset penalty is at its cap and the 0.10 is added to it
C22_Witness ==
    /\ Rostered
    /\ call.session_type = "1-on-1"
    /\ Cardinality(DesiredSet) = 1
    /\ Cardinality(CandidateSet \ DesiredSet) = 5
    /\ DesiredSet \subseteq CandidateSet
    /\ call.value.set_penalty = 220

-----------------------------------------------------------------------------
(* Properties of the saved overrides, checked under LabelSpec *)

\* the overrides the rendering has read for its recording
Overrides == load_label_override(Recorded.id)

\* the key the anchor step binds, if any
AnchorKeys ==
    IF _pick_me_speaker_id(Heard) = NoText THEN {}
    ELSE {<<"i","d",":">> \o _pick_me_speaker_id(Heard)}

\* the blocks whose explicit label is taken as a name
Labelled ==
    {i \in 1..Len(Heard) :
        /\ _extract_explicit_label(Heard[i]) # NoText
        /\ ~_looks_like_title_fragment(_extract_explicit_label(Heard[i]),
                                       Recorded.title, Recorded.title)}
LabelledKeys == {KeyAt(i) : i \in Labelled}

\* the name the anchor step or the last explicit label gives the key k
EarlyName(k) ==
    IF k \in LabelledKeys
    THEN _extract_explicit_label(
             Heard[CHOOSE i \in Labelled :
                      KeyAt(i) = k /\ \A j \in Labelled : KeyAt(j) = k => j <= i])
    ELSE ME_FULLNAME

\* a name as the returned map shows it: a self-alias reads as the self-name
Shown(name) == IF _is_me(name) THEN ME_FULLNAME ELSE name

\* the keys a ContactMeeting hint may have renamed after the overrides
HintKeys == DOMAIN ContactSpeakers(Recorded)

-----------------------------------------------------------------------------
(* Properties of the placeholders, checked under LabelSpec *)

\* the keys that got their name from the placeholder branch: named
\* "Speaker ..." by neither an explicit label, an override nor a hint
PlaceholderKey(k) ==
    /\ k \in DOMAIN FinalMap
    /\ StartsWith(FinalMap[k], <<"S","p","e","a","k","e","r"," ">>)
    /\ k \notin LabelledKeys \cup HintKeys
    /\ k \notin {o \in DOMAIN Overrides : Overrides[o] # <<>>}

\* they, in order of first appearance
PlaceholderKeys == SelectSeq(OtherKeys(1, NoText, {}), PlaceholderKey)

\* C24 as stated: when the preference list is exhausted, each further
\* unbound key receives the placeholder "Speaker N" with N = (number of
\* placeholders already assigned in this rendering) + 1, so the placeholders
\* assigned in one rendering are "Speaker 1", "Speaker 2", ... in order of
\* first appearance, for any explicit labels and overrides present.
C24_AsStated ==
    Rendering =>
        \A j \in 1..Len(PlaceholderKeys) :
            FinalMap[PlaceholderKeys[j]] = <<"S","p","e","a","k","e","r"," ">> \o Decimal(j)

-----------------------------------------------------------------------------
(* Properties of the self-name, checked under LabelSpec *)

\* C25 as stated: in the SpeakerMap returned by a rendering, every bound
\* name that matches the self-alias set (explicit alias membership or token
\* overlap with the canonical name) is the canonical self-name, whichever
\* step bound it (anchor, explicit label, override, source tag, preference
\* list, or external speaker hint).
C25_AsStated ==
    Rendering =>
        \A k \in DOMAIN FinalMap : _is_me(FinalMap[k]) => FinalMap[k] = ME_FULLNAME

-----------------------------------------------------------------------------
(* Properties of the grouping, checked under LabelSpec *)

\* the utterances the rendering grouped its blocks into
Utterances == last.rendered.grouped_pairs

\* the blocks with a text that is not empty after stripping, in order
RECURSIVE NonEmptyFrom(_)
NonEmptyFrom(i) ==
    IF i > Len(Heard) THEN <<>>
    ELSE (IF Strip(OrEmpty(Heard[i].text)) = <<>> THEN <<>> ELSE <<i>>) \o NonEmptyFrom(i + 1)

\* those that still have a text once the "<SNIP>" marker is removed
RECURSIVE SpokenFrom(_)
SpokenFrom(i) ==
    IF i > Len(Heard) THEN <<>>
    ELSE (IF Strip(WithoutSnip(Strip(OrEmpty(Heard[i].text)))) = <<>> THEN <<>> ELSE <<i>>)
         \o SpokenFrom(i + 1)

\* the keys of the blocks kept, a run of one key counted once
RECURSIVE Runs(_)
Runs(kept) ==
    IF kept = <<>> THEN <<>>
    ELSE IF Len(kept) > 1 /\ KeyAt(kept[1]) = KeyAt(kept[2]) THEN Runs(Tail(kept))
    ELSE <<KeyAt(kept[1])>> \o Runs(Tail(kept))

\* texts in order, one space between two of them
Concatenated(texts) == Join(texts, <<" ">>)

GroupedAs(kept, texts) ==
    /\ \A j \in 1..(Len(Utterances) - 1) : Utterances[j].key # Utterances[j + 1].key
    /\ [j \in 1..Len(Utterances) |-> Utterances[j].key] = Runs(kept)
    /\ Concatenated([j \in 1..Len(Utterances) |-> Utterances[j].utterance])
         = Concatenated(texts)

\* C26 as stated: grouping walks blocks in order, drops blocks whose text is
\* empty after stripping, and merges consecutive blocks sharing the same
\* SpeakerKey: in the output no two adjacent utterances have the same key,
\* and the concatenation of the utterances' texts in order equals the
\* concatenation of the non-empty stripped block texts in their original
\* order (nothing lost, duplicated or reordered).
C26_AsStated ==
    Rendering =>
        GroupedAs(NonEmptyFrom(1),
                  [j \in 1..Len(NonEmptyFrom(1)) |-> Strip(Heard[NonEmptyFrom(1)[j]].text)])

\* C26: grouping walks blocks in order, removes the "<SNIP>" marker from
\* each text, drops blocks whose text is empty after stripping, before or
\* after the marker is removed, and merges consecutive kept blocks sharing
\* the same SpeakerKey: no two adjacent utterances have the same key, and
\* the concatenation of the utterances' texts in order equals the
\* concatenation of the kept texts, stripped and without the marker, in
\* their original order.
C26_Grouping ==
    Rendering =>
        GroupedAs(SpokenFrom(1),
                  [j \in 1..Len(SpokenFrom(1)) |->
                      Strip(WithoutSnip(Strip(Heard[SpokenFrom(1)[j]].text)))])

\* a rendering dropped a block, merged two blocks of one key around it and
\* kept a later utterance of another key
C26_Witness ==
    /\ Rendering
    /\ Len(SpokenFrom(1)) < Len(Heard)
    /\ Len(Utterances) >= 2
    /\ Len(Utterances) < Len(SpokenFrom(1))
    /\ \E i \in 1..(Len(Heard) - 2) :
          /\ Strip(OrEmpty(Heard[i + 1].text)) = <<>>
          /\ KeyAt(i) = KeyAt(i + 2) /\ KeyAt(i) # KeyAt(i + 1)
          /\ Utterances[1].utterance
               = Strip(WithoutSnip(Strip(Heard[i].text))) \o <<" ">> \o Heard[i + 2].text

-----------------------------------------------------------------------------
(* Properties of the diagnostic counts, checked under LabelSpec *)

\* the non-empty blocks that carry the key k
BlocksOf(k) == {i \in 1..Len(Heard) : KeyAt(i) = k /\ Strip(OrEmpty(Heard[i].text)) # <<>>}

\* C27 as stated: the diagnostic map returned alongside the body is a
\* key -> block-count map: for every speaker key, its value equals the
\* number of non-empty transcript blocks carrying that key.
C27_AsStated ==
    Rendering =>
        \A k \in DOMAIN last.rendered.id_counts :
            last.rendered.id_counts[k] = Cardinality(BlocksOf(k))

-----------------------------------------------------------------------------
(* Properties of the selector's result, checked under SelSpec *)

\* the reasons a candidate is returned with
Reasons == {"id", "transcript", "ranked_window", "ranked_overlap", "title"}

\* C28: every result of find_best_candidate is well-formed: either
\* (None, None, diagnostics) or (candidate, reason, diagnostics) with reason
\* in {"id", "transcript", "ranked_window", "ranked_overlap", "title"} and a
\* candidate that has non-empty transcript content; a candidate is never
\* returned without a reason nor a reason without a candidate.
C28_WellFormed ==
    (Called /\ ~sel.raised) =>
        \/ sel.row = NoRow /\ sel.reason = ""
        \/ /\ sel.row \in db
           /\ sel.reason \in Reasons
           /\ HasAudio(sel.row.audio_transcript)

\* the title rule returned a candidate while the table also held a row
\* without transcript content
C28_Witness ==
    /\ Called /\ ~sel.raised
    /\ sel.row # NoRow /\ sel.reason = "title"
    /\ \E m \in db : ~HasAudio(m.audio_transcript)

\* the rules that return the head of the ranking
RankRules == {"transcript", "ranked_window", "ranked_overlap"}

\* the 1-based ranks of the diagnostics rows
Ranks == 1..Len(sel.debug_rows)

\* the candidate of rank j would pass one of the rules on its own figures
Passes(j) ==
    \/ WindowRule(SessionOf(pd), sel.debug_rows[j].score, sel.debug_rows[j]) # ""
    \/ OverlapRule(SessionOf(pd), sel.debug_rows[j])

\* C29: whenever find_best_candidate returns with reason "transcript",
\* "ranked_window" or "ranked_overlap", the returned candidate has the
\* maximal composite score among all scored candidates, the first such
\* candidate in start order on ties; a lower-ranked candidate is never
\* returned by these rules even if its own transcript_score, overlap or
\* title_score would satisfy them.
C29_TopRanked ==
    (Ranking /\ sel.reason \in RankRules) =>
        \E i \in Ranks :
            /\ sel.debug_rows[i].id = sel.row.id
            /\ \A j \in Ranks :
                  /\ sel.debug_rows[j].score <= sel.debug_rows[i].score
                  /\ (j # i /\ sel.debug_rows[j].score = sel.debug_rows[i].score)
                        => RowOf(sel.debug_rows[i]).start < RowOf(sel.debug_rows[j]).start

\* a rule returned the head of the ranking although a lower-ranked candidate
\* alone has a transcript_score that satisfies the transcript rule
C29_Witness ==
    /\ Ranking
    /\ sel.reason \in RankRules
    /\ sel.row.id = Top.id
    /\ Top.transcript_score < 150
    /\ \E j \in Ranks : j >= 2 /\ sel.debug_rows[j].transcript_score >= 150 /\ Passes(j)

-----------------------------------------------------------------------------
(* Properties of the sweep over the pending files, checked under Spec *)

\* the entries of a results list that carry "error": the selector raised, or
\* the transcript could not be written
Errors(results) == {i \in DOMAIN results : results[i].raised \/ results[i].failed}

\* one request to /reconcile/auto, over the pending files it enumerates
C30Step ==
    \A unwritable \in SUBSET pendings :
        reconcile_auto(unwritable) =>
            LET results == last'.results
            IN  /\ Len(results) = Cardinality(pendings)
                /\ \A p \in pendings :
                      Cardinality({i \in DOMAIN results : results[i].pending = p}) = 1
                /\ \A i \in DOMAIN results :
                      LET a == results[i]
                      IN  /\ a = Attempt(a.pending, Found[a.pending][<<db, dbExists>>],
                                         a.pending \notin unwritable)
                          /\ i \in Errors(results) => a.pending \in pendings'
                          /\ a.created =>
                                /\ a.pending \notin pendings'
                                /\ [base |-> BaseOf(a.pending), meeting_id |-> a.row.id]
                                      \in transcripts'

\* C30: in /reconcile/auto a failure on one pending record (an exception of
\* the selector, a transcript that cannot be written) does not stop the run:
\* every other enumerated record is processed as it would be on its own, the
\* failing record is left undeleted, and the results list holds exactly one
\* entry per enumerated record.
C30_RunGoesOn == [][C30Step]_vars

\* a sweep whose first record failed and whose second one was reconciled
C30_Witness ==
    /\ last.op = "reconcile_auto"
    /\ Len(last.results) = 2
    /\ Errors(last.results) = {1}
    /\ last.results[1].pending \in pendings
    /\ last.results[2].created
    /\ last.results[2].pending \notin pendings

====
